---------------------------- MODULE Spec2Model ----------------------------
(***************************************************************************)
(* Model of the pair-data cache of swapr-info (src/contexts/PairData):     *)
(* the reducer that owns the Cache Store, the Provider callbacks that      *)
(* dispatch to it, the fetch functions and the consumer hooks that decide  *)
(* when to fetch.  The source holds two versions of the module; `version`  *)
(* says which one is running (1: lines 1-835, 2: lines 836-1668).          *)
(*                                                                         *)
(* JavaScript objects are functions with a finite domain of keys, arrays   *)
(* are sequences, and a missing key is a key outside the DOMAIN.           *)
(***************************************************************************)
EXTENDS Integers, Sequences, FiniteSets, Bags, TLC

VARIABLES
  version,   \* which version of the module is running
  state,     \* the reducer state held by the Provider (the Cache Store)
  network,   \* useSelectedNetwork()
  price,     \* useNativeCurrencyPrice()[0] is present
  calls,     \* the asynchronous fetches in flight, in start order
  started,   \* how many fetches have been started
  ev,        \* how the last step ended: what it dispatched or raised
  bulk,      \* the invocation of getBulkPairData that is followed step by step
  watch,     \* whether ev records the runs of an effect that start no fetch
  fn         \* the call of a function that is followed on its own: its
             \* arguments, what its queries answer, and its result

vars == <<version, state, network, price, calls, started, ev, bulk, watch, fn>>

\* the variables of the Provider and of the hooks
program == <<version, state, network, price, calls, started, ev, bulk, watch>>

----------------------------------------------------------------------------
(* Bounds and input domains *)

MaxFetches == 2                 \* fetches started in one behaviour

Addrs == {"0xa", "0xb"}          \* pair addresses (isAddress holds of each)
Networks == {"mainnet", "xdai"}  \* SupportedNetwork
IntervalHour == 3600             \* the default interval of usePairRateData
IntervalDay == 24 * IntervalHour
Vals == {1, 2}                   \* distinguishes the data of different responses
OneVal == {CHOOSE v \in Vals : TRUE}  \* where one response is enough

----------------------------------------------------------------------------
(* Mutation types, src/contexts/PairData.jsx:44-50 *)

RESET == "RESET"
UPDATE == "UPDATE"
UPDATE_PAIR_TXNS == "UPDATE_PAIR_TXNS"
UPDATE_CHART_DATA == "UPDATE_CHART_DATA"
UPDATE_MINING_DATA == "UPDATE_MINING_DATA"
UPDATE_TOP_PAIRS == "UPDATE_TOP_PAIRS"
UPDATE_HOURLY_DATA == "UPDATE_HOURLY_DATA"
OTHER_TYPE == "SOMETHING_ELSE"   \* any type that is none of the seven

STATUS == {"active", "expired"}

----------------------------------------------------------------------------
(* JavaScript values *)

\* a key whose value is undefined is a key outside the DOMAIN: obj[k] ===
\* undefined, and for the values kept here (objects, arrays, non-empty
\* strings) !obj[k], hold exactly when ~Has(obj, k)
Has(obj, k) == k \in DOMAIN obj

EmptyObj == [k \in {} |-> TRUE]

\* ...obj?.[k] inside an object literal: the own keys of obj[k], nothing when
\* it is undefined
Spread(obj, k) == IF Has(obj, k) THEN obj[k] ELSE EmptyObj

\* { ...a, ...b }
Merge(a, b) ==
  [k \in DOMAIN a \cup DOMAIN b |-> IF k \in DOMAIN b THEN b[k] ELSE a[k]]

\* { ...a, [k]: v }
With(a, k, v) ==
  [j \in DOMAIN a \cup {k} |-> IF j = k THEN v ELSE a[j]]

\* the entry under key k as a set: empty when the key is missing
Entry(obj, k) == IF k \in DOMAIN obj THEN {obj[k]} ELSE {}

null == [null |-> TRUE]

\* safeAccess(object, [k]), lines 59-66: the value under k, null when it is
\* missing (the values under an address are objects, hence truthy)
safeAccess(object, k) == IF Has(object, k) THEN object[k] ELSE null

\* x || {}
OrEmptyObj(x) == IF x = null THEN EmptyObj ELSE x

\* list[0] as a sequence of at most one element: empty when list[0] is
\* undefined
First(list) == IF list = <<>> THEN <<>> ELSE <<Head(list)>>

\* topPairs.reduce((reducedPairs, pair) => { reducedPairs[pair.id] = pair; ... }, {})
RECURSIVE ReduceById(_, _)
ReduceById(list, acc) ==
  IF list = <<>> THEN acc
  ELSE ReduceById(Tail(list), With(acc, Head(list).id, Head(list)))

\* { ...array }: the elements under the keys 0, 1, ...
ObjectOfArray(arr) == [i \in 0 .. Len(arr) - 1 |-> arr[i + 1]]

----------------------------------------------------------------------------
(* The reducer, first version: src/contexts/PairData.jsx:74-159 *)

INITIAL_STATE_1 == [topPairs |-> EmptyObj]

\* throw Error(...): what the reducer hands back is the error
Thrown(type) == [thrown |-> type]

\* a default case that ignores the mutation instead of throwing
caseDefault_Ignore(st, type) == st

\* default, lines 155-157 (and 985-987)
caseDefault(st, type) == Thrown(type)

\* case UPDATE, lines 78-87 (and 912-921)
caseUPDATE(st, payload) ==
  With(st, payload.pairAddress,
       Merge(Spread(st, payload.pairAddress), Spread(payload, "data")))

\* case UPDATE_MINING_DATA, lines 88-95
caseUPDATE_MINING_DATA_1(st, payload) ==
  With(st, payload.status, payload.liquidityMiningData)

\* case UPDATE_TOP_PAIRS, lines 97-112
caseUPDATE_TOP_PAIRS_1(st, payload) ==
  LET newTopPairs == IF ~Has(payload, "topPairs") THEN EmptyObj
                     ELSE ReduceById(payload.topPairs, EmptyObj)
  IN  With(st, "topPairs", With(st.topPairs, payload.network, newTopPairs))

\* UPDATE_PAIR_TXNS without ...state: the other keys are dropped
caseUPDATE_PAIR_TXNS_NoState(st, payload) ==
  With(EmptyObj, payload.address,
       With(OrEmptyObj(safeAccess(st, payload.address)),
            "txns", payload.transactions))

\* case UPDATE_PAIR_TXNS, lines 114-123 (and 946-955)
caseUPDATE_PAIR_TXNS(st, payload) ==
  With(st, payload.address,
       With(OrEmptyObj(safeAccess(st, payload.address)),
            "txns", payload.transactions))

\* UPDATE_CHART_DATA without the spread of the cached record: its other
\* fields are dropped
caseUPDATE_CHART_DATA_NoRecord(st, payload) ==
  With(st, payload.address, With(EmptyObj, "chartData", payload.chartData))

\* case UPDATE_CHART_DATA, lines 124-133 (and 956-965)
caseUPDATE_CHART_DATA(st, payload) ==
  With(st, payload.address,
       With(OrEmptyObj(safeAccess(st, payload.address)),
            "chartData", payload.chartData))

\* case UPDATE_HOURLY_DATA, lines 135-147
caseUPDATE_HOURLY_DATA_1(st, payload) ==
  LET rec == Spread(st, payload.address)
  IN  With(st, payload.address,
           With(rec, payload.timeWindow,
                With(Spread(rec, payload.timeWindow),
                     payload.interval, payload.data)))

\* a RESET that returns INITIAL_STATE, top pairs included
caseRESET_1_Initial(st) == INITIAL_STATE_1

\* case RESET, lines 149-153
caseRESET_1(st) == [topPairs |-> st.topPairs]

reducer1(st, type, payload) ==
  CASE type = UPDATE -> caseUPDATE(st, payload)
    [] type = UPDATE_MINING_DATA -> caseUPDATE_MINING_DATA_1(st, payload)
    [] type = UPDATE_TOP_PAIRS -> caseUPDATE_TOP_PAIRS_1(st, payload)
    [] type = UPDATE_PAIR_TXNS -> caseUPDATE_PAIR_TXNS(st, payload)
    [] type = UPDATE_CHART_DATA -> caseUPDATE_CHART_DATA(st, payload)
    [] type = UPDATE_HOURLY_DATA -> caseUPDATE_HOURLY_DATA_1(st, payload)
    [] type = RESET -> caseRESET_1(st)
    [] OTHER -> caseDefault(st, type)

(* The reducer, second version: src/contexts/PairData.jsx:908-989 *)

INITIAL_STATE_2 == EmptyObj

\* case UPDATE_MINING_DATA, lines 922-931
caseUPDATE_MINING_DATA_2(st, payload) ==
  With(st, payload.status, ObjectOfArray(payload.liquidityMiningData))

\* case UPDATE_TOP_PAIRS, lines 933-944: the new state is the map of the list
caseUPDATE_TOP_PAIRS_2(st, payload) ==
  IF ~Has(payload, "topPairs") THEN EmptyObj
  ELSE ReduceById(payload.topPairs, EmptyObj)

\* case UPDATE_HOURLY_DATA, lines 967-979
caseUPDATE_HOURLY_DATA_2(st, payload) ==
  LET rec == Spread(st, payload.address)
  IN  With(st, payload.address,
           With(rec, "hourlyData",
                With(Spread(rec, "hourlyData"),
                     payload.timeWindow, payload.hourlyData)))

\* case RESET, lines 981-983
caseRESET_2(st) == INITIAL_STATE_2

reducer2(st, type, payload) ==
  CASE type = UPDATE -> caseUPDATE(st, payload)
    [] type = UPDATE_MINING_DATA -> caseUPDATE_MINING_DATA_2(st, payload)
    [] type = UPDATE_TOP_PAIRS -> caseUPDATE_TOP_PAIRS_2(st, payload)
    [] type = UPDATE_PAIR_TXNS -> caseUPDATE_PAIR_TXNS(st, payload)
    [] type = UPDATE_CHART_DATA -> caseUPDATE_CHART_DATA(st, payload)
    [] type = UPDATE_HOURLY_DATA -> caseUPDATE_HOURLY_DATA_2(st, payload)
    [] type = RESET -> caseRESET_2(st)
    [] OTHER -> caseDefault(st, type)

reducer(ver, st, type, payload) ==
  IF ver = 1 THEN reducer1(st, type, payload) ELSE reducer2(st, type, payload)

INITIAL_STATE(ver) == IF ver = 1 THEN INITIAL_STATE_1 ELSE INITIAL_STATE_2

----------------------------------------------------------------------------
(* Provider: useReducer(reducer, INITIAL_STATE) and the dispatching        *)
(* callbacks, src/contexts/PairData.jsx:161-237 and 991-1066.  A reducer   *)
(* that throws produces no new state: the error leaves the Provider.       *)

IsThrown(r) == "thrown" \in DOMAIN r

\* a dispatch that drops what arrives after a RESET
dispatch_DroppedAfterReset(type, payload, obs) ==
  LET r == reducer(version, state, type, payload)
  IN  IF IsThrown(r)
      THEN /\ state' = state
           /\ ev' = [t |-> "reducerThrew", type |-> type]
      ELSE IF fn.op = "inFlight" /\ fn.reset /\ type # RESET
      THEN /\ state' = state
           /\ ev' = [t |-> "dropped", type |-> type]
      ELSE /\ state' = r
           /\ ev' = [t |-> "dispatch", type |-> type, payload |-> payload] @@ obs

dispatch(type, payload, obs) ==
  LET r == reducer(version, state, type, payload)
  IN  IF IsThrown(r)
      THEN /\ state' = state
           /\ ev' = [t |-> "reducerThrew", type |-> type]
      ELSE /\ state' = r
           /\ ev' = [t |-> "dispatch", type |-> type, payload |-> payload] @@ obs

\* data is a sequence of at most one record: empty for update(pairAddress,
\* undefined)
update(pairAddress, data, obs) ==
  dispatch(UPDATE,
           IF data = <<>> THEN [pairAddress |-> pairAddress]
           ELSE [pairAddress |-> pairAddress, data |-> data[1]], obs)

\* the second version takes no network and dispatches none
updateTopPairs(topPairs, net, obs) ==
  IF version = 1
  THEN dispatch(UPDATE_TOP_PAIRS, [topPairs |-> topPairs, network |-> net], obs)
  ELSE dispatch(UPDATE_TOP_PAIRS, [topPairs |-> topPairs], obs)

updateMiningData(status, liquidityMiningData, obs) ==
  dispatch(UPDATE_MINING_DATA,
           [status |-> status, liquidityMiningData |-> liquidityMiningData], obs)

updatePairTxns(address, transactions, obs) ==
  dispatch(UPDATE_PAIR_TXNS, [address |-> address, transactions |-> transactions], obs)

updateChartData(address, chartData, obs) ==
  dispatch(UPDATE_CHART_DATA, [address |-> address, chartData |-> chartData], obs)

\* the second version stores one series per time window, whatever the interval
updateHourlyData(address, data, timeWindow, interval, obs) ==
  IF version = 1
  THEN dispatch(UPDATE_HOURLY_DATA,
                [address |-> address, data |-> data,
                 timeWindow |-> timeWindow, interval |-> interval], obs)
  ELSE dispatch(UPDATE_HOURLY_DATA,
                [address |-> address, hourlyData |-> data,
                 timeWindow |-> timeWindow], obs)

reset == dispatch(RESET, EmptyObj, EmptyObj)

----------------------------------------------------------------------------
(* What the fetch functions hand back to the hooks.  A response is told    *)
(* from another by the value v it carries.                                 *)

PairRecord(id, v) == [id |-> id, reserveUSD |-> v]

RecordsFor(ids, v) == [i \in 1 .. Len(ids) |-> PairRecord(ids[i], v)]

\* the lists made of some elements of list, in the order of list
RECURSIVE SubLists(_)
SubLists(list) ==
  IF list = <<>> THEN {<<>>}
  ELSE LET rest == SubLists(Tail(list))
       IN  rest \cup {<<Head(list)>> \o l : l \in rest}

\* getBulkPairData(client, blockClient, pairList, ...), lines 262-337, as a
\* whole: the block resolution of line 270 is outside the try, so its failure
\* rejects the call; a failure inside the try is caught and the call returns
\* undefined; otherwise one record per pair of the current bulk result, which
\* holds the pairs of pairList the indexer knows.
getBulkPairDataOutcomes(pairList) ==
  {[kind |-> "rejected"], [kind |-> "undefined"]}
  \cup {[kind |-> "list", list |-> RecordsFor(ids, v)] :
          ids \in SubLists(pairList), v \in Vals}

\* getPairTransactions, lines 381-399: the three lists of a response, or the
\* empty object when the query failed
getPairTransactionsOutcomes ==
  {[failed |-> TRUE, value |-> EmptyObj]}
  \cup {[failed |-> FALSE, value |-> [mints |-> v, burns |-> v, swaps |-> v]] : v \in OneVal}

\* getPairChartData, lines 401-468: the series, empty when the pair has no day
\* data; when a query failed, what had been collected until then (nothing if
\* the first page failed)
getPairChartDataOutcomes ==
  {[failed |-> TRUE, value |-> <<>>], [failed |-> FALSE, value |-> <<>>]}
  \cup {[failed |-> FALSE, value |-> <<v>>] : v \in Vals}

\* getPairRateData, lines 470-540: [] without timestamps or blocks, [[], []]
\* when something threw, else the two candle series
getPairRateDataOutcomes ==
  {[failed |-> FALSE, value |-> <<>>], [failed |-> TRUE, value |-> << <<>>, <<>> >>]}
  \cup {[failed |-> FALSE, value |-> << <<v>>, <<v>> >>] : v \in OneVal}

\* the campaigns query of useLiquidityMiningCampaignData, lines 738-792: the
\* query or the construction of a campaign throws; or the response has no
\* liquidityMiningCampaigns; or the list of campaign objects
miningOutcomes ==
  {[kind |-> "rejected"], [kind |-> "undefined"], [kind |-> "list", list |-> <<>>]}
  \cup {[kind |-> "list", list |-> <<v>>] : v \in OneVal}

\* the lists of ids the PAIRS_CURRENT query of the Updater may answer
TopPairLists == {<<>>, <<"0xa">>, <<"0xa", "0xb">>}

----------------------------------------------------------------------------
(* The fetches in flight: calls[i] is the i-th oldest fetch that has not   *)
(* completed yet.                                                          *)

Pending(i) == i \in 1 .. Len(calls)

CanStart == started < MaxFetches

Remove(seq, i) == SubSeq(seq, 1, i - 1) \o SubSeq(seq, i + 1, Len(seq))

finish(i) ==
  /\ calls' = Remove(calls, i)
  /\ started' = started

\* a fetch whose steps are not followed one by one
finishWhole(i) == finish(i) /\ UNCHANGED <<bulk, watch, fn>>

\* no invocation of getBulkPairData is followed
Idle == [pc |-> "idle"]

\* no function is followed on its own
NoCall == [op |-> "none"]

\* ev after a step that completes no fetch and dispatches nothing
Quiet == [t |-> "quiet"]

\* an error nothing catches: a rejected promise of a function an effect calls
\* without awaiting it
uncaught == ev' = [t |-> "uncaught"]

\* a fetch that returned undefined: its hook dispatches nothing
noResult == ev' = [t |-> "noResult"]

\* runs the staleness check of a hook: starts the fetch when it asks for one,
\* and else leaves the program as it is: such a run is a step only when ev
\* records it (ev then tells which check skipped)
check(call, issue) ==
  /\ issue => CanStart
  /\ issue \/ watch
  /\ calls' = IF issue THEN Append(calls, call) ELSE calls
  /\ started' = IF issue THEN started + 1 ELSE started
  /\ ev' = IF ~issue /\ watch THEN [t |-> "skipped", call |-> call] ELSE Quiet
  /\ UNCHANGED <<version, state, network, price, bulk, watch, fn>>

----------------------------------------------------------------------------
(* usePairData, lines 684-705 (second version 1509-1537) *)

\* !pairData || !pairData.id; the second version tests !pairData alone
noPairData(a) ==
  IF version = 1
  THEN ~Has(state, a) \/ ~Has(state[a], "id")
  ELSE ~Has(state, a)

\* price is the nativeCurrencyPrice of the render, which fetchData passes on
usePairDataCall(a) == [hook |-> "usePairData", address |-> a, price |-> price]

\* an effect that fetches without looking at the price
usePairDataEffect_AnyPrice(a) ==
  check(usePairDataCall(a), noPairData(a))

usePairDataEffect(a) ==
  check(usePairDataCall(a), noPairData(a) /\ price)

\* the continuation of fetchData after the await
usePairDataDone(i) ==
  /\ Pending(i) /\ calls[i].hook = "usePairData"
  /\ finishWhole(i)
  /\ \E o \in getBulkPairDataOutcomes(<<calls[i].address>>) :
       CASE o.kind = "rejected" -> uncaught /\ state' = state
         [] o.kind = "undefined" ->
              /\ noResult
              /\ state' = state
         [] o.kind = "list" ->
              \* update(pairAddress, data[0])
              update(calls[i].address, First(o.list),
                     [failed |-> FALSE])
  /\ UNCHANGED <<version, network, price>>

(* usePairTransactions, lines 710-724 *)

noPairTxns(a) ==
  ~Has(state, a) \/ ~Has(state[a], "txns")

usePairTransactionsCall(a) == [hook |-> "usePairTransactions", address |-> a]

usePairTransactionsEffect(a) ==
  check(usePairTransactionsCall(a), noPairTxns(a))

usePairTransactionsDone(i) ==
  /\ Pending(i) /\ calls[i].hook = "usePairTransactions"
  /\ finishWhole(i)
  /\ \E o \in getPairTransactionsOutcomes :
       updatePairTxns(calls[i].address, o.value,
                      [failed |-> o.failed])
  /\ UNCHANGED <<version, network, price>>

(* usePairChartData, lines 803-819 *)

\* a check of the entry of the pair instead of its chartData
noChartData_AnyEntry(a) == ~Has(state, a)

\* !chartData, line 809
noChartData(a) ==
  ~Has(state, a) \/ ~Has(state[a], "chartData")

usePairChartDataCall(a) == [hook |-> "usePairChartData", address |-> a]

usePairChartDataEffect(a) ==
  check(usePairChartDataCall(a), noChartData(a))

usePairChartDataDone(i) ==
  /\ Pending(i) /\ calls[i].hook = "usePairChartData"
  /\ finishWhole(i)
  /\ \E o \in getPairChartDataOutcomes :
       updateChartData(calls[i].address, o.value,
                       [failed |-> o.failed])
  /\ UNCHANGED <<version, network, price>>

(* usePairRateData, lines 594-617 (useHourlyRateData, 1416-1442) *)

\* state?.[pairAddress]?.[timeWindow]?.[interval]; the second version reads
\* state?.[pairAddress]?.hourlyData?.[timeWindow]
hourlySeries(st, a, tw, iv) ==
  IF ~Has(st, a) THEN {}
  ELSE IF version = 1
       THEN IF ~Has(st[a], tw) THEN {} ELSE Entry(st[a][tw], iv)
       ELSE IF ~Has(st[a], "hourlyData") THEN {}
            ELSE Entry(st[a].hourlyData, tw)

usePairRateDataCall(a, tw, iv) ==
  [hook |-> "usePairRateData", address |-> a, timeWindow |-> tw, interval |-> iv]

\* the (pair, window, interval) of the rate charts that get mounted, among
\* Addrs \X TimeWindows \X Intervals
RateKeys ==
  {<<"0xa", "1 week", IntervalHour>>, <<"0xa", "1 week", IntervalDay>>,
   <<"0xa", "1 year", IntervalHour>>}

\* the second version has no interval: it samples every 3600 s
usePairRateDataEffect(a, tw, iv) ==
  /\ version = 2 => iv = IntervalHour
  /\ check(usePairRateDataCall(a, tw, iv), hourlySeries(state, a, tw, iv) = {})

usePairRateDataDone(i) ==
  /\ Pending(i) /\ calls[i].hook = "usePairRateData"
  /\ finishWhole(i)
  /\ \E o \in getPairRateDataOutcomes :
       updateHourlyData(calls[i].address, o.value, calls[i].timeWindow,
                        calls[i].interval, [failed |-> o.failed])
  /\ UNCHANGED <<version, network, price>>

(* Updater, lines 542-592 (second version 1374-1414) *)

UpdaterCall == [hook |-> "Updater", network |-> network, price |-> price]

\* nativeCurrencyPrice && getData(): every run of the effect with a price
\* fetches the top pairs again
UpdaterEffect == check(UpdaterCall, price)

\* getData after its awaits: the PAIRS_CURRENT query is awaited outside any
\* try, and so is getBulkPairData
UpdaterDone(i) ==
  /\ Pending(i) /\ calls[i].hook = "Updater"
  /\ finishWhole(i)
  /\ \/ uncaught /\ state' = state
     \/ \E ids \in TopPairLists : \E o \in getBulkPairDataOutcomes(ids) :
          CASE o.kind = "rejected" -> uncaught /\ state' = state
            [] o.kind = "undefined" ->
                 /\ noResult
                 /\ state' = state
            [] o.kind = "list" ->
                 updateTopPairs(o.list, calls[i].network,
                                [failed |-> FALSE])
  /\ UNCHANGED <<version, network, price>>

(* useLiquidityMiningCampaignData, lines 726-801 (second version 1558-1637) *)

\* miningData[status] === undefined && nativeCurrencyUSDPrice !== undefined;
\* the second version tests !miningData[status] alone
noMiningData(status) ==
  IF version = 1
  THEN ~Has(state, status) /\ price
  ELSE ~Has(state, status)

useLiquidityMiningCampaignDataCall(status) ==
  [hook |-> "useLiquidityMiningCampaignData", status |-> status]

useLiquidityMiningCampaignDataEffect(status) ==
  check(useLiquidityMiningCampaignDataCall(status), noMiningData(status))

useLiquidityMiningCampaignDataDone(i) ==
  /\ Pending(i) /\ calls[i].hook = "useLiquidityMiningCampaignData"
  /\ finishWhole(i)
  /\ \E o \in miningOutcomes :
       CASE o.kind = "rejected" -> uncaught /\ state' = state
         [] o.kind = "undefined" ->
              /\ noResult
              /\ state' = state
         [] o.kind = "list" ->
              updateMiningData(calls[i].status, o.list,
                               [failed |-> FALSE])
  /\ UNCHANGED <<version, network, price>>

(* usePairContextResetter, lines 831-834: the reset a network switch calls *)

usePairContextResetter ==
  /\ reset
  /\ UNCHANGED <<version, network, price, calls, started, bulk, watch, fn>>

(* a dispatch whose type is none of the seven, lines 155-157 *)

dispatchOther ==
  /\ dispatch(OTHER_TYPE, EmptyObj, EmptyObj)
  /\ UNCHANGED <<version, network, price, calls, started, bulk, watch, fn>>

(* the environment of the hooks: the selected network and the native       *)
(* currency price (contexts Network and GlobalData)                        *)

selectNetwork(n) ==
  /\ n # network
  /\ network' = n
  /\ ev' = Quiet
  /\ UNCHANGED <<version, state, price, calls, started, bulk, watch, fn>>

priceChanged ==
  /\ price' = ~price
  /\ ev' = Quiet
  /\ UNCHANGED <<version, state, network, calls, started, bulk, watch, fn>>

----------------------------------------------------------------------------
(* getBulkPairData, lines 262-337, followed await by await for one call of *)
(* usePairData or of the Updater                                           *)

\* the reference points: one day, two days and one week ago (b1, b2, bWeek)
WindowSeq == <<"oneDay", "twoDay", "oneWeek">>

Windows == {WindowSeq[n] : n \in DOMAIN WindowSeq}

\* the elements of a list
Range(list) == {list[n] : n \in DOMAIN list}

\* [latestSyncedBlock, latestSyncedBlock, latestSyncedBlock], lines 565-567
overrideBlocks == <<100, 100, 100>>

\* the blocks of [t1, t2, tWeek] when getBlocksFromTimestamps resolves them
resolvedBlocks == <<100, 90, 10>>

\* a call that resolves the blocks whatever overrideBlocks is
Invocation_AlwaysResolves(call, pairList, override) ==
  [pc       |-> "blocks",
   call     |-> call,
   pairList |-> pairList,
   override |-> override,
   resolverCalls |-> 0,
   refs     |-> <<>>,
   pinned   |-> <<>>,
   blocks   |-> {},
   current  |-> <<>>,
   value    |-> 0,
   history  |-> EmptyObj,
   answered |-> EmptyObj,
   caught   |-> FALSE,
   result   |-> [kind |-> "none"]]

\* the call getBulkPairData(client, blockClient, pairList, ..., overrideBlocks)
\* made by caller call, at its first await: overrideBlocks of length three
\* skips the block resolution (lines 267-271)
Invocation(call, pairList, override) ==
  [pc       |-> IF override THEN "current" ELSE "blocks",
   call     |-> call,
   pairList |-> pairList,
   override |-> override,   \* overrideBlocks is an array of three blocks
   resolverCalls |-> 0,     \* the calls of getBlocksFromTimestamps so far
   refs     |-> IF override THEN overrideBlocks ELSE <<>>,  \* [b1, b2, bWeek]
   pinned   |-> <<>>,       \* the blocks of the three historical queries
   blocks   |-> IF override THEN Windows ELSE {},  \* the windows whose block is known
   current  |-> <<>>,       \* the ids of current.data.pairs
   value    |-> 0,          \* what the indexer answers for their fields
   history  |-> EmptyObj,   \* id -> the windows whose bulk result holds it
   answered |-> EmptyObj,   \* id -> the fallback queries answered so far
   caught   |-> FALSE,
   result   |-> [kind |-> "none"]]

\* the windows of pair id that need a PAIR_DATA fallback query, in the order
\* of lines 307-327
Missing(b, id) ==
  SelectSeq(WindowSeq, LAMBDA w : w \notin b.history[id])

\* the async callback of line 305 has returned for pair id
Derived(b, id) == b.answered[id] = Len(Missing(b, id))

\* a catch that returns the records derived before the throw
catchResult_Partial(b) ==
  [kind |-> "list",
   list |-> RecordsFor(SelectSeq(b.current, LAMBDA id : id \in DOMAIN b.answered
                                                        /\ Derived(b, id)),
                       b.value)]

\* catch (e) { console.log(e); }, lines 334-337: the function ends without a
\* return statement
catchResult(b) == [kind |-> "undefined"]

\* a return of the records of the pairs that needed no fallback query only
returnResult_NoFallback(b) ==
  [kind |-> "list",
   list |-> RecordsFor(SelectSeq(b.current, LAMBDA id : Missing(b, id) = <<>>),
                       b.value)]

\* return pairData, line 333: Promise.all keeps the order of current.data.pairs
returnResult(b) == [kind |-> "list", list |-> RecordsFor(b.current, b.value)]

bulkStep(b) ==
  /\ bulk' = b
  /\ ev' = Quiet
  /\ UNCHANGED <<version, state, network, price, calls, started, watch, fn>>

\* a throw inside the try of lines 273-333
throwInTry ==
  bulkStep([bulk EXCEPT !.pc = "returned", !.caught = TRUE,
                        !.result = catchResult(bulk)])

\* fetchData of usePairData, lines 692-699, up to its await: the second
\* version passes [] as overrideBlocks, whose length is not three
usePairDataFetch(i) ==
  /\ Pending(i) /\ calls[i].hook = "usePairData"
  /\ bulk = Idle
  /\ finish(i)
  /\ bulk' = Invocation(calls[i], <<calls[i].address>>, FALSE)
  /\ ev' = Quiet
  /\ UNCHANGED <<version, state, network, price, watch, fn>>

\* getData of the Updater, lines 553-577, up to the await of getBulkPairData:
\* the PAIRS_CURRENT query is awaited outside any try
UpdaterGetData(i) ==
  /\ Pending(i) /\ calls[i].hook = "Updater"
  /\ bulk = Idle
  /\ finish(i)
  /\ \/ uncaught /\ bulk' = bulk
     \/ /\ \E ids \in TopPairLists : \E override \in BOOLEAN :
             bulk' = Invocation(calls[i], ids, override)
        /\ ev' = Quiet
  /\ UNCHANGED <<version, state, network, price, watch, fn>>

\* await getBlocksFromTimestamps(...), line 270, before the try: the query
\* rejects, or the result holds a block for the windows of r only, and then
\* the destructuring { number: b } of a missing element throws
resolveBlocks ==
  /\ bulk.pc = "blocks"
  /\ \/ \E r \in SUBSET Windows :
          IF r = Windows
          THEN bulkStep([bulk EXCEPT !.pc = "current", !.blocks = r,
                                     !.resolverCalls = @ + 1,
                                     !.refs = resolvedBlocks])
          ELSE bulkStep([bulk EXCEPT !.pc = "rejected", !.blocks = r,
                           !.resolverCalls = @ + 1,
                           !.result = [kind |-> "rejected", why |-> "unresolved"]])
     \/ bulkStep([bulk EXCEPT !.pc = "rejected", !.resolverCalls = @ + 1,
                              !.result = [kind |-> "rejected", why |-> "query"]])

\* await client.query({ query: PAIRS_BULK, ... }), lines 274-279: the indexer
\* answers the pairs of pairList it knows
queryCurrent ==
  /\ bulk.pc = "current"
  /\ \/ \E ids \in SubLists(bulk.pairList) : \E v \in Vals :
          bulkStep([bulk EXCEPT !.pc = "fees", !.current = ids, !.value = v])
     \/ throwInTry

\* await getPairsSwapFee(selectedNetwork, pairList), line 280: it catches its
\* own failures (lines 240-260), so that this await never throws
queryFees ==
  /\ bulk.pc = "fees"
  /\ bulkStep([bulk EXCEPT !.pc = "historical"])

\* await Promise.all of the three PAIRS_HISTORICAL_BULK queries, lines
\* 282-301, and the synchronous start of the callbacks of line 305: a pair
\* held by the three results is derived without another await
queryHistorical ==
  /\ bulk.pc = "historical"
  /\ \/ \E h \in [Range(bulk.current) -> SUBSET Windows] :
          bulkStep([bulk EXCEPT !.pc = "entities", !.history = h,
                                !.pinned = bulk.refs,
                                !.answered = [id \in Range(bulk.current) |-> 0]])
     \/ throwInTry

\* await client.query({ query: PAIR_DATA(pair.id, block) }), lines 309-326,
\* for the next missing window of pair id; after the last one parseData runs
\* (line 328). newData.data.pairs[0] throws when the answer has no data
queryFallback(id) ==
  /\ bulk.pc = "entities"
  /\ id \in DOMAIN bulk.answered
  /\ ~Derived(bulk, id)
  /\ \/ bulkStep([bulk EXCEPT !.answered[id] = @ + 1])
     \/ throwInTry

\* the Promise.all of line 303 resolves: return pairData
returnPairData ==
  /\ bulk.pc = "entities"
  /\ \A id \in DOMAIN bulk.answered : Derived(bulk, id)
  /\ bulkStep([bulk EXCEPT !.pc = "returned", !.result = returnResult(bulk)])

\* the caller after its await: topPairs && updateTopPairs(topPairs, network),
\* line 578, or data && update(pairAddress, data[0]), line 698
callerResumes ==
  /\ bulk.pc \in {"returned", "rejected"}
  /\ bulk' = Idle
  /\ CASE bulk.result.kind = "rejected" -> uncaught /\ state' = state
       [] bulk.result.kind = "undefined" -> noResult /\ state' = state
       [] bulk.result.kind = "list" ->
            IF bulk.call.hook = "Updater"
            THEN updateTopPairs(bulk.result.list, bulk.call.network,
                                [failed |-> FALSE])
            ELSE update(bulk.call.address, First(bulk.result.list),
                        [failed |-> FALSE])
  /\ UNCHANGED <<version, network, price, calls, started, watch, fn>>

----------------------------------------------------------------------------

Init ==
  /\ version \in {1, 2}
  /\ state = INITIAL_STATE(version)
  /\ network = "mainnet"
  /\ price = FALSE
  /\ calls = <<>>
  /\ started = 0
  /\ ev = Quiet
  /\ bulk = Idle
  /\ watch = FALSE
  /\ fn = NoCall

Next ==
  \/ \E a \in Addrs : usePairDataEffect(a)
  \/ \E a \in Addrs : usePairTransactionsEffect(a)
  \/ \E a \in Addrs : usePairChartDataEffect(a)
  \/ \E k \in RateKeys : usePairRateDataEffect(k[1], k[2], k[3])
  \/ UpdaterEffect
  \/ \E status \in STATUS : useLiquidityMiningCampaignDataEffect(status)
  \/ \E i \in 1 .. MaxFetches : usePairDataDone(i)
  \/ \E i \in 1 .. MaxFetches : usePairTransactionsDone(i)
  \/ \E i \in 1 .. MaxFetches : usePairChartDataDone(i)
  \/ \E i \in 1 .. MaxFetches : usePairRateDataDone(i)
  \/ \E i \in 1 .. MaxFetches : UpdaterDone(i)
  \/ \E i \in 1 .. MaxFetches : useLiquidityMiningCampaignDataDone(i)
  \/ usePairContextResetter
  \/ dispatchOther
  \/ \E n \in Networks : selectNetwork(n)
  \/ priceChanged

Spec == Init /\ [][Next]_vars

\* the calls of getBulkPairData, step by step
NextBulk ==
  \/ \E a \in Addrs : usePairDataEffect(a)
  \/ UpdaterEffect
  \/ \E i \in 1 .. MaxFetches : usePairDataFetch(i)
  \/ \E i \in 1 .. MaxFetches : UpdaterGetData(i)
  \/ resolveBlocks
  \/ queryCurrent
  \/ queryFees
  \/ queryHistorical
  \/ \E id \in Addrs : queryFallback(id)
  \/ returnPairData
  \/ callerResumes
  \/ priceChanged

SpecBulk == Init /\ [][NextBulk]_vars

\* the staleness checks, every run of an effect recorded in ev
InitChecks ==
  /\ version \in {1, 2}
  /\ state = INITIAL_STATE(version)
  /\ network = "mainnet"
  /\ price = FALSE
  /\ calls = <<>>
  /\ started = 0
  /\ ev = Quiet
  /\ bulk = Idle
  /\ watch = TRUE
  /\ fn = NoCall

NextChecks ==
  \/ \E a \in Addrs : usePairDataEffect(a)
  \/ \E a \in Addrs : usePairTransactionsEffect(a)
  \/ \E a \in Addrs : usePairChartDataEffect(a)
  \/ \E k \in RateKeys : usePairRateDataEffect(k[1], k[2], k[3])
  \/ UpdaterEffect
  \/ \E i \in 1 .. MaxFetches : usePairDataDone(i)
  \/ \E i \in 1 .. MaxFetches : usePairTransactionsDone(i)
  \/ \E i \in 1 .. MaxFetches : usePairChartDataDone(i)
  \/ \E i \in 1 .. MaxFetches : usePairRateDataDone(i)
  \/ \E i \in 1 .. MaxFetches : UpdaterDone(i)
  \/ usePairContextResetter
  \/ priceChanged

SpecChecks == InitChecks /\ [][NextChecks]_vars

----------------------------------------------------------------------------
(* getPairsSwapFee, lines 240-260, and the swapFee of the records of       *)
(* getBulkPairData, line 329, followed on their own                        *)

MaxReturnData == 3        \* length of the list the multicall answers

FeeVals == {0, 30}        \* swap fees in bips that swapFee() may return

DefaultSwapFee == 25      \* swapFees[pair.id] || 25

\* a blob of returnData: one that decodeFunctionResult decodes to a fee, or
\* one that it rejects
Blobs == {[ok |-> TRUE, fee |-> f] : f \in FeeVals} \cup {[ok |-> FALSE, fee |-> 0]}

\* the lists of n blobs
RECURSIVE BlobLists(_)
BlobLists(n) ==
  IF n = 0 THEN {<<>>}
  ELSE {Append(l, b) : l \in BlobLists(n - 1), b \in Blobs}

\* what multicall.aggregate answers: it rejects, or returns a list of blobs
\* of any length
MulticallAnswers ==
  {[kind |-> "rejected"]}
  \cup {[kind |-> "returnData", returnData |-> l] :
          l \in UNION {BlobLists(n) : n \in 0 .. MaxReturnData}}

\* the lists of pair ids sent: the ids of a list are distinct
PairIdLists == {<<>>, <<"0xa">>, <<"0xb">>, <<"0xa", "0xb">>, <<"0xb", "0xa">>}

\* the loop of lines 253-255 from index i: a blob that cannot be decoded
\* throws, which ends the loop with the fees assigned so far
RECURSIVE decodeFees(_, _, _, _)
decodeFees(pairIds, returnData, i, fees) ==
  IF i > Len(returnData) THEN fees
  ELSE IF ~returnData[i].ok THEN fees
  ELSE decodeFees(pairIds, returnData, i + 1,
                  With(fees, pairIds[i], returnData[i].fee))

\* a lookup without the length check of line 251: the blobs are assigned to
\* the ids as far as both lists go
getPairsSwapFee_NoLengthCheck(pairIds, answer) ==
  IF answer.kind = "rejected" THEN EmptyObj
  ELSE LET n == IF Len(pairIds) < Len(answer.returnData)
                THEN Len(pairIds) ELSE Len(answer.returnData)
       IN  decodeFees(pairIds, SubSeq(answer.returnData, 1, n), 1, EmptyObj)

\* getPairsSwapFee(selectedNetwork, pairIds), lines 240-260: every throw
\* inside is caught and fees is returned as it is then
getPairsSwapFee(pairIds, answer) ==
  IF answer.kind = "rejected" THEN EmptyObj
  ELSE IF Len(pairIds) # Len(answer.returnData) THEN EmptyObj
  ELSE decodeFees(pairIds, answer.returnData, 1, EmptyObj)

\* a record that takes the looked-up fee as it is, 0 when there is none
swapFeeOf_NoDefault(swapFees, id) ==
  IF Has(swapFees, id) THEN swapFees[id] ELSE 0

\* swapFees[pair.id] || 25, line 329: a missing fee and the fee 0 are falsy
swapFeeOf(swapFees, id) ==
  IF Has(swapFees, id) /\ swapFees[id] # 0 THEN swapFees[id] ELSE DefaultSwapFee

\* the calls getPairsSwapFee(selectedNetwork, pairList) of line 280, with
\* what the multicall answers and the pairs of the current result
FeeCalls ==
  {[op |-> "getPairsSwapFee", pc |-> "called", pairIds |-> ids,
    answer |-> ans, current |-> cur, fees |-> EmptyObj, records |-> <<>>] :
     ids \in PairIdLists, ans \in MulticallAnswers, cur \in PairIdLists}

InitFees ==
  /\ version \in {1, 2}
  /\ state = INITIAL_STATE(version)
  /\ network = "mainnet"
  /\ price = FALSE
  /\ calls = <<>>
  /\ started = 0
  /\ ev = Quiet
  /\ bulk = Idle
  /\ watch = FALSE
  /\ fn \in {c \in FeeCalls : \A n \in DOMAIN c.current :
                                 c.current[n] \in Range(c.pairIds)}

\* const swapFees = await getPairsSwapFee(selectedNetwork, pairList), line 280
feesReturned ==
  /\ fn.op = "getPairsSwapFee" /\ fn.pc = "called"
  /\ fn' = [fn EXCEPT !.pc = "returned",
                      !.fees = getPairsSwapFee(fn.pairIds, fn.answer)]
  /\ UNCHANGED program

\* data.swapFee = swapFees[pair.id] || 25, line 329, for every pair of the
\* current result
feesRecorded ==
  /\ fn.op = "getPairsSwapFee" /\ fn.pc = "returned"
  /\ fn' = [fn EXCEPT !.pc = "recorded",
                      !.records = [n \in DOMAIN fn.current |->
                                     [id |-> fn.current[n],
                                      swapFee |-> swapFeeOf(fn.fees, fn.current[n])]]]
  /\ UNCHANGED program

NextFees == feesReturned \/ feesRecorded

SpecFees == InitFees /\ [][NextFees]_vars

----------------------------------------------------------------------------
(* parseData, lines 339-379, followed on its own.  The cumulative volumes   *)
(* of the subgraph are modelled by whole numbers; parseFloat of a number    *)
(* is that number.                                                          *)

MaxVolume == 3            \* the largest cumulative volume of a pair

Volumes == 0 .. MaxVolume

\* the reference blocks [b1, b2, bWeek] of getBulkPairData: resolved from
\* the timestamps, or the synced block three times (lines 267-271, 565-567)
ReferenceBlocks == {resolvedBlocks, overrideBlocks}

\* the blocks a pair may have been created at
CreationBlocks == {5, 10, 95, 100, 105}

\* no snapshot of the pair at a block: newData.data.pairs[0] is undefined
NoSnapshot == [has |-> FALSE, volumeUSD |-> 0]

\* the snapshots of a pair whose cumulative volume is at most v
Snapshots(v) == {NoSnapshot} \cup {[has |-> TRUE, volumeUSD |-> w] : w \in 0 .. v}

\* a snapshot whose volume is never read: 0 in every case
volumeOr0_Always0(snapshot) ==
  0

\* oneDayData?.volumeUSD ? oneDayData.volumeUSD : 0, lines 343-344
volumeOr0(snapshot) ==
  IF snapshot.has /\ snapshot.volumeUSD # 0 THEN snapshot.volumeUSD ELSE 0

\* a percent, kept as the fraction num / den
Percent(num, den) == [num |-> num, den |-> den]

ZeroPercent == Percent(0, 1)

\* get2DayPercentChange(valueNow, value24HoursAgo, value48HoursAgo): the
\* change of the last day, and its percent change against the change of the
\* day before, 0 when that change is 0
get2DayPercentChange(valueNow, value24HoursAgo, value48HoursAgo) ==
  LET currentChange  == valueNow - value24HoursAgo
      previousChange == value24HoursAgo - value48HoursAgo
  IN  [change  |-> currentChange,
       percent |-> IF previousChange = 0 THEN ZeroPercent
                   ELSE Percent((currentChange - previousChange) * 100,
                                previousChange)]

\* a week volume that is always the lifetime volume
oneWeekVolumeUSD_Lifetime(data, oneWeekData) ==
  data.volumeUSD

\* const oneWeekVolumeUSD, line 351
oneWeekVolumeUSD(data, oneWeekData) ==
  IF oneWeekData.has THEN data.volumeUSD - oneWeekData.volumeUSD
  ELSE data.volumeUSD

\* a pair without a one-day snapshot is given no one-day volume
formatOneDay_NoVolume(data, oneDayData, oneDayBlock, oneDayVolumeUSD) ==
  IF ~oneDayData.has THEN [value |-> 0, forced |-> TRUE]
  ELSE [value |-> oneDayVolumeUSD, forced |-> FALSE]

\* lines 364-369: the one-day volume of a pair without a one-day snapshot;
\* forced tells that one of the two assignments ran
formatOneDay(data, oneDayData, oneDayBlock, oneDayVolumeUSD) ==
  LET first  == IF ~oneDayData.has /\ data.createdAtBlockNumber > oneDayBlock
                THEN data.volumeUSD ELSE oneDayVolumeUSD
      second == IF ~oneDayData.has THEN data.volumeUSD ELSE first
  IN  [value |-> second, forced |-> ~oneDayData.has]

\* a derivation that never runs the assignment of line 371
formatOneWeek_Never(data, oneWeekData, weekVolumeUSD) ==
  [value |-> weekVolumeUSD, forced |-> FALSE]

\* lines 370-372: the week volume of a pair without a one-week snapshot
formatOneWeek(data, oneWeekData, weekVolumeUSD) ==
  IF ~oneWeekData.has THEN [value |-> data.volumeUSD, forced |-> TRUE]
  ELSE [value |-> weekVolumeUSD, forced |-> FALSE]

\* parseData(data, oneDayData, twoDayData, oneWeekData, nativeCurrencyPrice,
\* oneDayBlock), lines 339-379: the volume fields of the record returned;
\* oneDayForced and oneWeekForced tell which assignments of lines 364-372 ran
parseData(data, oneDayData, twoDayData, oneWeekData, oneDayBlock) ==
  LET twoDay  == get2DayPercentChange(data.volumeUSD, volumeOr0(oneDayData),
                                      volumeOr0(twoDayData))
      oneDay  == formatOneDay(data, oneDayData, oneDayBlock, twoDay.change)
      oneWeek == formatOneWeek(data, oneWeekData,
                               oneWeekVolumeUSD(data, oneWeekData))
  IN  [id |-> data.id,
       volumeUSD |-> data.volumeUSD,
       createdAtBlockNumber |-> data.createdAtBlockNumber,
       oneDayVolumeUSD |-> oneDay.value,
       oneWeekVolumeUSD |-> oneWeek.value,
       volumeChangeUSD |-> twoDay.percent,
       oneDayForced |-> oneDay.forced,
       oneWeekForced |-> oneWeek.forced]

\* the calls of parseData of line 328: a pair of the current result, the
\* three snapshots found for it and the reference blocks.  Volumes are
\* cumulative: an older snapshot has at most the volume of a newer one
ParseCalls ==
  {[op |-> "parseData", pc |-> "called",
    data |-> [id |-> "0xa", volumeUSD |-> v, createdAtBlockNumber |-> c],
    oneDayData |-> d1, twoDayData |-> d2, oneWeekData |-> dw,
    blocks |-> b, result |-> null] :
     v \in Volumes, c \in CreationBlocks, d1 \in Snapshots(MaxVolume),
     d2 \in Snapshots(MaxVolume), dw \in Snapshots(MaxVolume),
     b \in ReferenceBlocks}

Cumulative(c) ==
  /\ c.oneDayData.volumeUSD <= c.data.volumeUSD
  /\ c.twoDayData.volumeUSD <= c.data.volumeUSD
  /\ c.oneWeekData.volumeUSD <= c.data.volumeUSD
  /\ c.oneDayData.has => c.twoDayData.volumeUSD <= c.oneDayData.volumeUSD
  /\ c.oneDayData.has => c.oneWeekData.volumeUSD <= c.oneDayData.volumeUSD
  /\ c.twoDayData.has => c.oneWeekData.volumeUSD <= c.twoDayData.volumeUSD

InitParse ==
  /\ version \in {1, 2}
  /\ state = INITIAL_STATE(version)
  /\ network = "mainnet"
  /\ price = TRUE
  /\ calls = <<>>
  /\ started = 0
  /\ ev = Quiet
  /\ bulk = Idle
  /\ watch = FALSE
  /\ fn \in {c \in ParseCalls : Cumulative(c)}

\* data = parseData(data, oneDayHistory, twoDayHistory, oneWeekHistory,
\* nativeCurrencyPrice, b1), line 328
parseDataReturns ==
  /\ fn.op = "parseData" /\ fn.pc = "called"
  /\ fn' = [fn EXCEPT !.pc = "returned",
                      !.result = parseData(fn.data, fn.oneDayData, fn.twoDayData,
                                           fn.oneWeekData, fn.blocks[1])]
  /\ UNCHANGED program

NextParse == parseDataReturns

SpecParse == InitParse /\ [][NextParse]_vars

----------------------------------------------------------------------------
(* getPairChartData, lines 401-468, followed on its own *)

MaxDay == 4               \* the last calendar day the subgraph has a point of

MaxPoints == 3            \* the largest number of pairDayDatas fetched

oneDay == 86400           \* const oneDay = 24 * 60 * 60

\* the calendar days of the fetched points; today is the day after MaxDay
Days == 1 .. MaxDay

\* utcEndTime.unix(): an hour into today
utcEndTime == (MaxDay + 1) * oneDay + IntervalHour

\* (date / oneDay).toFixed(0): the quotient rounded to the nearest integer
dayIndex(date) == (2 * date + oneDay) \div (2 * oneDay)

\* a pairDayData of the subgraph: its date is the start of its day
DayDatas ==
  {[date |-> d * oneDay, dailyVolumeUSD |-> 1, reserveUSD |-> v] :
     d \in Days, v \in Vals}

\* the lists of n pairDayDatas, in any order
RECURSIVE DayDataLists(_)
DayDataLists(n) ==
  IF n = 0 THEN {<<>>}
  ELSE {Append(l, p) : l \in DayDataLists(n - 1), p \in DayDatas}

\* the set of day indexes of the points, lines 425-430
dayIndexSet(data) == {dayIndex(data[n].date) : n \in DOMAIN data}

\* the while loop of lines 442-458 from timestamp on; index counts from 0 as
\* in the code.  Reading reserveUSD of an element dayIndexArray has not
\* throws, which the catch of line 463 takes
RECURSIVE fillEmptyDays(_, _, _, _, _)
fillEmptyDays(data, dayIndexArray, timestamp, latestLiquidityUSD, index) ==
  IF ~(timestamp < utcEndTime - oneDay) THEN [data |-> data, threw |-> FALSE]
  ELSE LET nextDay == timestamp + oneDay
       IN  IF dayIndex(nextDay) \notin dayIndexSet(dayIndexArray)
           THEN fillEmptyDays(
                  Append(data, [date |-> nextDay, dailyVolumeUSD |-> 0,
                                reserveUSD |-> latestLiquidityUSD]),
                  dayIndexArray, nextDay, latestLiquidityUSD, index)
           ELSE IF index + 1 > Len(dayIndexArray)
           THEN [data |-> data, threw |-> TRUE]
           ELSE fillEmptyDays(data, dayIndexArray, nextDay,
                              dayIndexArray[index + 1].reserveUSD, index + 1)

\* the list without its element at n
Without(list, n) == SubSeq(list, 1, n - 1) \o SubSeq(list, n + 1, Len(list))

\* data.sort((a, b) => (parseInt(a.date) > parseInt(b.date) ? 1 : -1)),
\* line 462: the orders ascending by date; the comparator does not say which
\* of two points of the same date comes first
RECURSIVE sortByDate(_)
sortByDate(data) ==
  IF data = <<>> THEN {<<>>}
  ELSE UNION {{<<data[n]>> \o rest : rest \in sortByDate(Without(data, n))} :
                n \in {k \in DOMAIN data :
                         \A j \in DOMAIN data : data[k].date <= data[j].date}}

\* getPairChartData(client, pairAddress), lines 401-468, after the pages
\* were fetched: the lists it may return
getPairChartData(fetched) ==
  IF fetched = <<>> THEN {<<>>}
  ELSE LET filled == fillEmptyDays(fetched, fetched, fetched[1].date,
                                   fetched[1].reserveUSD, 1)
       IN  IF filled.threw THEN {filled.data} ELSE sortByDate(filled.data)

ChartCalls ==
  {[op |-> "getPairChartData", pc |-> "fetched", fetched |-> l, result |-> <<>>] :
     l \in UNION {DayDataLists(n) : n \in 0 .. MaxPoints}}

InitChart ==
  /\ version \in {1, 2}
  /\ state = INITIAL_STATE(version)
  /\ network = "mainnet"
  /\ price = FALSE
  /\ calls = <<>>
  /\ started = 0
  /\ ev = Quiet
  /\ bulk = Idle
  /\ watch = FALSE
  /\ fn \in ChartCalls

\* lines 425-467: the days are filled, the list is sorted and returned
getPairChartDataReturns ==
  /\ fn.op = "getPairChartData" /\ fn.pc = "fetched"
  /\ \E result \in getPairChartData(fn.fetched) :
       fn' = [fn EXCEPT !.pc = "returned", !.result = result]
  /\ UNCHANGED program

NextChart == getPairChartDataReturns

SpecChart == InitChart /\ [][NextChart]_vars

----------------------------------------------------------------------------
(* getPairRateData, lines 470-540 (getHourlyRateData, lines 1302-1372),    *)
(* followed step by step                                                    *)

MaxHours == 3             \* hour boundaries of the longest window, as the
                          \* second version counts them

\* dayjs.utc().unix(): a minute into the hour after the last boundary
rateEndTime == (MaxHours + 1) * IntervalHour + 60

\* the start of the window: an hour start, the last one after now
StartTimes == {h * IntervalHour : h \in 1 .. MaxHours + 2}

\* the loops of lines 477-480 and 1309-1312: the hour starts from time to end
RECURSIVE hourStarts(_, _, _)
hourStarts(time, interval, end) ==
  IF time <= end THEN <<time>> \o hourStarts(time + interval, interval, end)
  ELSE <<>>

\* timestamps, lines 476-480: the second version stops an hour before now
rateTimestamps(v, startTime, interval) ==
  hourStarts(startTime, interval,
             IF v = 1 THEN rateEndTime ELSE rateEndTime - IntervalHour)

\* the block the chain had at a timestamp
blockAt(timestamp) == [timestamp |-> timestamp,
                       number |-> (timestamp \div IntervalHour) * 10]

\* latestBlock: undefined (0 is as falsy), or the number of a synced block
LatestBlocks == {0} \cup {h * 10 + 5 : h \in 1 .. MaxHours} \cup {(MaxHours + 1) * 10}

\* a rate read from the subgraph; parseFloat(undefined) is NaN
Rate(v) == [nan |-> FALSE, value |-> v]

NaN == [nan |-> TRUE, value |-> 0]

\* the rows result['t' + timestamp] of HOURLY_PAIR_RATES for a block: the
\* prices of the pair at the block, or null when it did not exist then
RowsOf(block) ==
  {[timestamp |-> block.timestamp, block |-> block.number,
    rate0 |-> Rate(v0), rate1 |-> Rate(v1)] : v0 \in Vals, v1 \in OneVal}
  \cup {[timestamp |-> block.timestamp, block |-> block.number,
         rate0 |-> NaN, rate1 |-> NaN]}

\* the results of splitQuery for the blocks: one row per block, in their order
RECURSIVE RowLists(_)
RowLists(blocks) ==
  IF blocks = <<>> THEN {<<>>}
  ELSE {<<r>> \o l : r \in RowsOf(Head(blocks)), l \in RowLists(Tail(blocks))}

\* the filter of lines 497-501 left out
filterSynced_All(blocks, latestBlock) ==
  blocks

\* lines 497-501: with a latest block, the blocks beyond it are dropped
filterSynced(blocks, latestBlock) ==
  IF latestBlock # 0
  THEN SelectSeq(blocks, LAMBDA b : b.number <= latestBlock)
  ELSE blocks

\* candles that keep a last one, open only, closing at its own rate
candles_Trailing(values, rate) ==
  [i \in 1 .. Len(values) |->
     [timestamp |-> values[i].timestamp,
      open |-> values[i][rate],
      close |-> values[IF i < Len(values) THEN i + 1 ELSE i][rate],
      openBlock |-> values[i].block,
      closeBlock |-> values[IF i < Len(values) THEN i + 1 ELSE i].block]]

\* the loop of lines 523-534 for one of the two rates: candle i opens at
\* values[i] and closes at values[i + 1].  openBlock and closeBlock tell the
\* blocks the two rates were read at
candles(values, rate) ==
  [i \in 1 .. Len(values) - 1 |->
     [timestamp |-> values[i].timestamp,
      open |-> values[i][rate],
      close |-> values[i + 1][rate],
      openBlock |-> values[i].block,
      closeBlock |-> values[i + 1].block]]

\* the calls getPairRateData(client, blockClient, pairAddress, startTime,
\* interval, latestBlock) of line 608 (1432)
RateCalls ==
  {[op |-> "getPairRateData", pc |-> "called", startTime |-> t,
    latestBlock |-> l, timestamps |-> <<>>, blocks |-> <<>>,
    resolved |-> FALSE, queried |-> <<>>, values |-> <<>>,
    caught |-> FALSE, result |-> <<>>] :
     t \in StartTimes, l \in LatestBlocks}

InitRate ==
  /\ version \in {1, 2}
  /\ state = INITIAL_STATE(version)
  /\ network = "mainnet"
  /\ price = FALSE
  /\ calls = <<>>
  /\ started = 0
  /\ ev = Quiet
  /\ bulk = Idle
  /\ watch = FALSE
  /\ fn \in RateCalls

rateStep(f) == fn' = f /\ UNCHANGED program

\* lines 472-485: the timestamps; without any the call returns []
rateEnumerate ==
  /\ fn.op = "getPairRateData" /\ fn.pc = "called"
  /\ LET timestamps == rateTimestamps(version, fn.startTime, IntervalHour)
     IN  IF timestamps = <<>>
         THEN rateStep([fn EXCEPT !.pc = "returned", !.result = <<>>])
         ELSE rateStep([fn EXCEPT !.pc = "resolving", !.timestamps = timestamps])

\* lines 490-495: the resolver rejects, which the catch answers with [[], []];
\* or it resolves some of the timestamps, and none makes the call return []
rateResolve ==
  /\ fn.op = "getPairRateData" /\ fn.pc = "resolving"
  /\ \/ rateStep([fn EXCEPT !.pc = "returned", !.caught = TRUE,
                            !.result = << <<>>, <<>> >>])
     \/ \E found \in SubLists(fn.timestamps) :
          IF found = <<>>
          THEN rateStep([fn EXCEPT !.pc = "returned", !.result = <<>>])
          ELSE rateStep([fn EXCEPT !.pc = "querying", !.resolved = TRUE,
                                   !.blocks = [n \in DOMAIN found |-> blockAt(found[n])]])

\* lines 497-536: the blocks are filtered and queried; the query rejects, or
\* its rows become the values and the candles of the two series
rateQuery ==
  /\ fn.op = "getPairRateData" /\ fn.pc = "querying"
  /\ LET queried == filterSynced(fn.blocks, fn.latestBlock)
     IN  \/ rateStep([fn EXCEPT !.pc = "returned", !.queried = queried,
                                !.caught = TRUE, !.result = << <<>>, <<>> >>])
         \/ \E rows \in RowLists(queried) :
              rateStep([fn EXCEPT !.pc = "returned", !.queried = queried,
                                  !.values = rows,
                                  !.result = <<candles(rows, "rate0"),
                                               candles(rows, "rate1")>>])

NextRate == rateEnumerate \/ rateResolve \/ rateQuery

SpecRate == InitRate /\ [][NextRate]_vars

----------------------------------------------------------------------------
(* useDataForList, lines 623-679 (second version 1447-1504): one instance  *)
(* of the hook, next to the hooks that fill the store                      *)

MaxInFlight == 2          \* the fetches in flight at a time

\* what getBulkPairData leaves in newPairData when it returns nothing
undefined == [undefined |-> TRUE]

\* the values of fetched, and of formattedFetch: an array, or undefined
\* after setFetched()
Defined(value) == [defined |-> TRUE, value |-> value]

Undefined == [defined |-> FALSE, value |-> <<>>]

\* the instance for pairList after its first render: useState(false),
\* useState([]), and the reset effect of lines 634-639 still to run
ListHook(pairList) ==
  [op |-> "useDataForList", pairList |-> pairList, resetDue |-> TRUE,
   stale |-> FALSE, fetched |-> Defined(<<>>),
   pending |-> <<>>,      \* the call of fetchNewPairData in flight
   cached |-> {},         \* the ids it found in the store
   got |-> {},            \* the ids getBulkPairData returned a record of
   done |-> FALSE,        \* setFetched(newFetched.concat(newPairData)) ran
   from |-> Undefined]    \* the pairList of the call whose result fetched holds

\* [cur?.id] of line 675: the key of an element without an id is 'undefined'
idKey(cur) == IF Has(cur, "id") THEN cur.id ELSE "undefined"

\* fetched.reduce((obj, cur) => ({ ...obj, [cur?.id]: cur }), {}), lines 673-676
RECURSIVE reduceFetched(_, _)
reduceFetched(obj, list) ==
  IF list = <<>> THEN obj
  ELSE reduceFetched(With(obj, idKey(Head(list)), Head(list)), Tail(list))

\* formattedFetch, lines 672-678: undefined while fetched is
formattedFetch(f) ==
  IF ~f.fetched.defined THEN Undefined
  ELSE Defined(reduceFetched(EmptyObj, f.fetched.value))

\* the reset effect, lines 634-639: setFetched() in the first version,
\* setFetched([]) in the second
useDataForListReset ==
  /\ fn.op = "useDataForList" /\ fn.resetDue
  /\ fn' = [fn EXCEPT !.resetDue = FALSE, !.stale = FALSE, !.from = Undefined,
                      !.fetched = IF version = 1 THEN Undefined ELSE Defined(<<>>)]
  /\ UNCHANGED program

\* the ids of pairList with an entry in the store, and those without, lines
\* 646-653
listFetched(pairList) == SelectSeq(pairList, LAMBDA id : Has(state, id))

unfetched(pairList) == SelectSeq(pairList, LAMBDA id : ~Has(state, id))

\* the effect of lines 641-670 when it fetches: setStale(true) and
\* fetchNewPairData() up to its await
useDataForListEffect ==
  /\ fn.op = "useDataForList"
  /\ price /\ Len(fn.pairList) > 0 /\ ~fn.fetched.defined /\ ~fn.stale
  /\ Len(fn.pending) < MaxInFlight
  /\ fn' = [fn EXCEPT
       !.stale = TRUE,
       !.cached = Range(listFetched(fn.pairList)),
       !.pending = Append(@, [newFetched |-> [n \in DOMAIN listFetched(fn.pairList) |->
                                                state[listFetched(fn.pairList)[n]]],
                              unfetched |-> unfetched(fn.pairList),
                              pairList |-> fn.pairList,
                              price |-> price])]
  /\ UNCHANGED program

\* fetchNewPairData after its await, line 666, for the i-th call in flight:
\* a rejected getBulkPairData ends it; else newPairData, a list or undefined,
\* is concatenated and set, whatever pairList is by then
useDataForListDone(i) ==
  /\ fn.op = "useDataForList" /\ i \in DOMAIN fn.pending
  /\ \E o \in getBulkPairDataOutcomes(fn.pending[i].unfetched) :
       CASE o.kind = "rejected" -> fn' = [fn EXCEPT !.pending = Remove(@, i)]
         [] o.kind = "undefined" ->
              fn' = [fn EXCEPT !.pending = Remove(@, i), !.done = TRUE,
                               !.from = Defined(fn.pending[i].pairList),
                               !.fetched = Defined(Append(fn.pending[i].newFetched,
                                                          undefined))]
         [] o.kind = "list" ->
              fn' = [fn EXCEPT !.pending = Remove(@, i), !.done = TRUE,
                               !.from = Defined(fn.pending[i].pairList),
                               !.got = {o.list[n].id : n \in DOMAIN o.list},
                               !.fetched = Defined(fn.pending[i].newFetched \o o.list)]
  /\ UNCHANGED program

\* the component renders with another pairList: the reset effect is due
\* again (line 639)
pairListChanged(pairList) ==
  /\ fn.op = "useDataForList" /\ pairList # fn.pairList
  /\ fn' = [fn EXCEPT !.pairList = pairList, !.resetDue = TRUE]
  /\ UNCHANGED program

InitList ==
  /\ version \in {1, 2}
  /\ state = INITIAL_STATE(version)
  /\ network = "mainnet"
  /\ price = FALSE
  /\ calls = <<>>
  /\ started = 0
  /\ ev = Quiet
  /\ bulk = Idle
  /\ watch = FALSE
  /\ fn \in {ListHook(l) : l \in TopPairLists}

\* the three callers of getBulkPairData
NextList ==
  \/ useDataForListReset
  \/ useDataForListEffect
  \/ \E i \in 1 .. MaxInFlight : useDataForListDone(i)
  \/ \E a \in Addrs : usePairDataEffect(a)
  \/ \E i \in 1 .. MaxFetches : usePairDataDone(i)
  \/ UpdaterEffect
  \/ \E i \in 1 .. MaxFetches : UpdaterDone(i)
  \/ priceChanged

SpecList == InitList /\ [][NextList]_vars

\* the hook on its own, rendered with one list after the other
NextRelist ==
  \/ useDataForListReset
  \/ useDataForListEffect
  \/ \E i \in 1 .. MaxInFlight : useDataForListDone(i)
  \/ \E pairList \in TopPairLists : pairListChanged(pairList)
  \/ priceChanged

SpecRelist == InitList /\ [][NextRelist]_vars

----------------------------------------------------------------------------
(* The effects of usePairData('0xa') and of useLiquidityMiningCampaignData *)
(* as React schedules them: an effect runs after the first render and      *)
(* after every render in which one of its dependencies has changed.        *)

\* the instances after their first render: both effects are due
Mounted == [op |-> "effects", due |-> [pair |-> TRUE, mining |-> TRUE]]

ThePair == "0xa"

\* the effects that are due after a render: pairData, nativeCurrencyPrice and
\* selectedNetwork are dependencies of usePairData (line 702); the price and
\* the network are those of the mining hook, whose miningData is not one
\* (lines 796-797); in the second version miningData is one and is a new
\* object at every render (line 1635)
dueAfter(due, pairDataChanged, envChanged, rendered) ==
  [pair   |-> due.pair \/ pairDataChanged \/ envChanged,
   mining |-> due.mining \/ envChanged \/ (version = 2 /\ rendered)]

\* the store, the price or the network has changed: the hooks render again
render ==
  fn' = [fn EXCEPT !.due =
           dueAfter(fn.due,
                    Entry(state', ThePair) # Entry(state, ThePair),
                    price' # price \/ network' # network,
                    state' # state \/ price' # price \/ network' # network)]

\* the effect of usePairData, lines 691-702
effectUsePairData ==
  /\ fn.op = "effects" /\ fn.due.pair
  /\ LET issue == noPairData(ThePair) /\ price
     IN  /\ issue => Len(calls) < MaxInFlight
         /\ calls' = IF issue THEN Append(calls, usePairDataCall(ThePair)) ELSE calls
  /\ fn' = [fn EXCEPT !.due.pair = FALSE]
  /\ ev' = Quiet
  /\ UNCHANGED <<version, state, network, price, started, bulk, watch>>

\* the statuses fetchData fetches, line 735 (1568)
statusesToFetch == {status \in STATUS : noMiningData(status)}

\* the lists of the elements of a set, in some order
RECURSIVE ListsOf(_)
ListsOf(set) ==
  IF set = {} THEN {<<>>}
  ELSE UNION {{<<x>> \o l : l \in ListsOf(set \ {x})} : x \in set}

\* the effect of useLiquidityMiningCampaignData, lines 734-797: fetchData of
\* every status
effectMiningData ==
  /\ fn.op = "effects" /\ fn.due.mining
  /\ Len(calls) + Cardinality(statusesToFetch) <= MaxInFlight
  /\ \E l \in ListsOf(statusesToFetch) :
       calls' = calls \o [n \in DOMAIN l |-> useLiquidityMiningCampaignDataCall(l[n])]
  /\ fn' = [fn EXCEPT !.due.mining = FALSE]
  /\ ev' = Quiet
  /\ UNCHANGED <<version, state, network, price, started, bulk, watch>>

\* fetchData of usePairData after its await, lines 695-696
doneUsePairData(i) ==
  /\ fn.op = "effects"
  /\ Pending(i) /\ calls[i].hook = "usePairData"
  /\ finish(i)
  /\ \E o \in getBulkPairDataOutcomes(<<calls[i].address>>) :
       CASE o.kind = "rejected" -> uncaught /\ state' = state
         [] o.kind = "undefined" -> noResult /\ state' = state
         [] o.kind = "list" ->
              update(calls[i].address, First(o.list), [failed |-> FALSE])
  /\ UNCHANGED <<version, network, price, bulk, watch>>
  /\ render

\* fetchData of the mining hook after its await, lines 738-792
doneMiningData(i) ==
  /\ fn.op = "effects"
  /\ Pending(i) /\ calls[i].hook = "useLiquidityMiningCampaignData"
  /\ finish(i)
  /\ \E o \in miningOutcomes :
       CASE o.kind = "rejected" -> uncaught /\ state' = state
         [] o.kind = "undefined" -> noResult /\ state' = state
         [] o.kind = "list" ->
              updateMiningData(calls[i].status, o.list, [failed |-> FALSE])
  /\ UNCHANGED <<version, network, price, bulk, watch>>
  /\ render

\* reset(), lines 52-54, called by the holder of usePairContextResetter
resetRenders ==
  /\ fn.op = "effects"
  /\ reset
  /\ UNCHANGED <<version, network, price, calls, started, bulk, watch>>
  /\ render

\* the native currency price comes or goes
priceRenders ==
  /\ fn.op = "effects"
  /\ price' = ~price
  /\ ev' = Quiet
  /\ UNCHANGED <<version, state, network, calls, started, bulk, watch>>
  /\ render

\* another network is selected
networkRenders ==
  /\ fn.op = "effects"
  /\ \E n \in Networks \ {network} : network' = n
  /\ ev' = Quiet
  /\ UNCHANGED <<version, state, price, calls, started, bulk, watch>>
  /\ render

InitLive ==
  /\ version \in {1, 2}
  /\ state = INITIAL_STATE(version)
  /\ network = "mainnet"
  /\ price = FALSE
  /\ calls = <<>>
  /\ started = 0
  /\ ev = Quiet
  /\ bulk = Idle
  /\ watch = FALSE
  /\ fn = Mounted

NextLive ==
  \/ effectUsePairData
  \/ effectMiningData
  \/ \E i \in 1 .. MaxInFlight : doneUsePairData(i)
  \/ \E i \in 1 .. MaxInFlight : doneMiningData(i)
  \/ resetRenders
  \/ priceRenders
  \/ networkRenders

\* React runs every effect that is due, and every fetch is answered
SpecLive ==
  /\ InitLive /\ [][NextLive]_vars
  /\ SF_vars(effectUsePairData)
  /\ SF_vars(effectMiningData)
  /\ \A i \in 1 .. MaxInFlight : WF_vars(doneUsePairData(i))
  /\ \A i \in 1 .. MaxInFlight : WF_vars(doneMiningData(i))


----------------------------------------------------------------------------
(* getBulkPairData, lines 282-333, query by query: the three               *)
(* PAIRS_HISTORICAL_BULK queries and the PAIR_DATA queries of every pair   *)

\* the place of window w in [b1, b2, bWeek]
windowIndex(w) == CHOOSE n \in DOMAIN WindowSeq : WindowSeq[n] = w

\* a join that resumes at the first answer
historicalJoined_Any(f) == f.answered # {}

\* await Promise.all([b1, b2, bWeek].map(...)), line 282: the call resumes
\* when the three queries are answered
historicalJoined(f) == f.answered = Windows

\* a lookup made whatever the bulk result holds
needsFallback_Always(f, id, w) == TRUE

\* !oneDayHistory, !twoDayHistory, !oneWeekHistory, lines 308, 315, 322: the
\* bulk result of window w holds no pair id
needsFallback(f, id, w) == id \notin f.hist[w]

\* client.query({ query: PAIR_DATA(pair.id, b) }), lines 309-311, 316-318,
\* 323-325
fallbackQuery(f, id, w) ==
  [id |-> id, window |-> w, block |-> f.refs[windowIndex(w)]]

\* the first of the ifs of lines 308, 315, 322 after the n-th one that is
\* taken, 0 when none is
nextFallback(f, id, n) ==
  LET later == {m \in DOMAIN WindowSeq : m > n /\ needsFallback(f, id, WindowSeq[m])}
  IN  IF later = {} THEN 0 ELSE CHOOSE m \in later : \A k \in later : m <= k

\* the callback of line 305 for pair id runs from after its n-th if to its
\* next await, or to its return of line 330
runEntity(f, id, e, n) ==
  LET m == nextFallback(f, id, n)
  IN  IF m = 0
      THEN [e EXCEPT !.status = "derived"]
      ELSE [e EXCEPT !.status = "waiting",
                     !.asked = Append(@, fallbackQuery(f, id, WindowSeq[m]))]

\* the callback of line 305 before it starts
NewEntity == [asked |-> <<>>, done |-> 0, status |-> "new"]

\* the invocation at line 282, after the current pairs and the fees
WindowCalls ==
  {[op       |-> "getBulkPairData",
    pc       |-> "map",
    refs     |-> refs,      \* [b1, b2, bWeek]
    pairs    |-> pairs,     \* the ids of current.data.pairs
    issued   |-> <<>>,      \* the historical queries made so far
    answered |-> {},        \* the windows whose query is answered
    hist     |-> [w \in Windows |-> {}],  \* the ids of each bulk result
    entity   |-> EmptyObj,  \* id -> the callback of line 305 for the pair
    caught   |-> FALSE,
    result   |-> "none"] : refs \in ReferenceBlocks, pairs \in TopPairLists}

InitWindows ==
  /\ version \in {1, 2}
  /\ state = INITIAL_STATE(version)
  /\ network = "mainnet"
  /\ price = FALSE
  /\ calls = <<>>
  /\ started = 0
  /\ ev = Quiet
  /\ bulk = Idle
  /\ watch = FALSE
  /\ fn \in WindowCalls

\* one callback of the map of lines 283-288: the query is made and its
\* promise returned without an await; after the third one Promise.all is
\* awaited
issueHistorical ==
  /\ fn.op = "getBulkPairData" /\ fn.pc = "map"
  /\ LET issued == Append(fn.issued, WindowSeq[Len(fn.issued) + 1])
     IN  fn' = [fn EXCEPT !.issued = issued,
                          !.pc = IF Len(issued) = Len(WindowSeq)
                                 THEN "await" ELSE "map"]
  /\ UNCHANGED program

\* the indexer answers the historical query of window w with the pairs it
\* held at the block of w
answerHistorical(w) ==
  /\ fn.op = "getBulkPairData" /\ fn.pc \in {"map", "await"}
  /\ w \in Range(fn.issued) /\ w \notin fn.answered
  /\ \E ids \in SUBSET Range(fn.pairs) :
       fn' = [fn EXCEPT !.answered = @ \cup {w}, !.hist[w] = ids]
  /\ UNCHANGED program

\* the historical query of window w rejects: Promise.all rejects, and the
\* catch of lines 334-336 ends the call
rejectHistorical(w) ==
  /\ fn.op = "getBulkPairData" /\ fn.pc = "await"
  /\ w \notin fn.answered
  /\ fn' = [fn EXCEPT !.pc = "returned", !.caught = TRUE,
                      !.result = "undefined"]
  /\ UNCHANGED program

\* lines 291-332 after the join: the three maps are built and every callback
\* of line 305 runs up to its first await
joinHistorical ==
  /\ fn.op = "getBulkPairData" /\ fn.pc = "await"
  /\ historicalJoined(fn)
  /\ fn' = [fn EXCEPT !.pc = "entities",
                      !.entity = [id \in Range(fn.pairs) |->
                                    runEntity(fn, id, NewEntity, 0)]]
  /\ UNCHANGED program

\* the PAIR_DATA query that pair id waits for is answered, and its callback
\* runs on to its next await or to its end
answerFallback(id) ==
  /\ fn.op = "getBulkPairData" /\ fn.pc \in {"entities", "returned"}
  /\ Has(fn.entity, id) /\ fn.entity[id].status = "waiting"
  /\ LET e == fn.entity[id]
         n == windowIndex(e.asked[Len(e.asked)].window)
     IN  fn' = [fn EXCEPT !.entity[id] =
                  runEntity(fn, id, [e EXCEPT !.done = @ + 1], n)]
  /\ UNCHANGED program

\* the PAIR_DATA query that pair id waits for rejects: its callback ends, the
\* Promise.all of line 303 rejects and the catch ends the call, while the
\* callbacks of the other pairs go on
rejectFallback(id) ==
  /\ fn.op = "getBulkPairData" /\ fn.pc \in {"entities", "returned"}
  /\ Has(fn.entity, id) /\ fn.entity[id].status = "waiting"
  /\ fn' = [fn EXCEPT !.entity[id].status = "threw",
                      !.pc = "returned",
                      !.caught = IF fn.pc = "entities" THEN TRUE ELSE @,
                      !.result = IF fn.pc = "entities" THEN "undefined" ELSE @]
  /\ UNCHANGED program

\* the Promise.all of line 303 resolves: return pairData, line 333
returnWindows ==
  /\ fn.op = "getBulkPairData" /\ fn.pc = "entities"
  /\ \A id \in DOMAIN fn.entity : fn.entity[id].status = "derived"
  /\ fn' = [fn EXCEPT !.pc = "returned", !.result = "list"]
  /\ UNCHANGED program

NextWindows ==
  \/ issueHistorical
  \/ \E w \in Windows : answerHistorical(w)
  \/ \E w \in Windows : rejectHistorical(w)
  \/ joinHistorical
  \/ \E id \in Addrs : answerFallback(id)
  \/ \E id \in Addrs : rejectFallback(id)
  \/ returnWindows

SpecWindows == InitWindows /\ [][NextWindows]_vars


----------------------------------------------------------------------------
(* useTokenIcon, lines 1673-1733                                           *)

\* the fetches of a token list that are in flight together
MaxRuns == 2

\* the components that call useTokenIcon
Consumers == {1, 2}

\* SupportedNetwork.MAINNET, .XDAI, .ARBITRUM_ONE, the keys of CACHE
SupportedNetwork == {"mainnet", "xdai", "arbitrum"}

\* what useSelectedNetwork() may return
IconNetworks == {"mainnet", "rinkeby"}

\* ChainIdForSupportedNetwork, imported from ../constants
ChainIdForSupportedNetwork == [mainnet |-> 1, xdai |-> 100, arbitrum |-> 42161]

\* the addresses a component asks the icon of: "" stands for no address
IconAddrs == {"", "0xA"}

\* String.prototype.toLowerCase on the addresses of the model
toLowerCase(a) == IF a = "0xA" THEN "0xa" ELSE a

\* the tokens a token list may hold
Tokens ==
  {[address |-> "0xA", chainId |-> 1, logoURI |-> "a.png"],
   [address |-> "0xA", chainId |-> 100, logoURI |-> "x.png"]}

\* what a fetched token list may hold
TokenLists == {{}, Tokens}

\* const CACHE = {...}, lines 1673-1677
EmptyCACHE == [n \in SupportedNetwork |-> EmptyObj]

\* tokens.reduce((cache, token) => ...), lines 1718-1722: the logo of every
\* token of the chain, under its lower-case address
reduceTokens(tokens, chainId) ==
  LET kept == {t \in tokens : t.chainId = chainId}
  IN  [a \in {toLowerCase(t.address) : t \in kept} |->
         (CHOOSE t \in kept : toLowerCase(t.address) = a).logoURI]

\* const [uri, setUri] = useState(), line 1681: uri is undefined at first
NoUri == [defined |-> FALSE, value |-> ""]

\* CACHE[selectedNetwork][address.toLowerCase()], line 1724
cachedUri(cache, address) ==
  IF Has(cache, toLowerCase(address))
  THEN [defined |-> TRUE, value |-> cache[toLowerCase(address)]]
  ELSE NoUri

\* a setUri made whatever the flag says
notCancelled_Ignored(run) == TRUE

\* if (!cancelled), line 1724
notCancelled(run) == ~run.cancelled

\* a lookup that fetches the list whatever the cache holds
cacheIsEmpty_Always(cache) == TRUE

\* Object.keys(CACHE[selectedNetwork]).length === 0, line 1693
cacheIsEmpty(cache) == DOMAIN cache = {}

\* the hook before any component is mounted
NoIcons ==
  [op        |-> "useTokenIcon",
   selected  |-> "mainnet",
   CACHE     |-> EmptyCACHE,
   consumers |-> [c \in Consumers |->
                    [mounted |-> FALSE, address |-> "", uri |-> NoUri]],
   runs      |-> EmptyBag,  \* the runs of fetchTokenLogo at an await
   fetched   |-> {},        \* the networks whose list was fetched
   events    |-> {}]        \* what the runs did in the last step

\* return () => { cancelled = true }, lines 1727-1729, for the run of the
\* effect of component c that is at an await
cleanup(f, c) ==
  LET live == {run \in BagToSet(f.runs) : run.consumer = c /\ ~run.cancelled}
  IN  IF live = {} THEN f
      ELSE LET run == CHOOSE x \in live : TRUE
           IN  [f EXCEPT !.runs = (@ (-) SetToBag({run}))
                                    (+) SetToBag({[run EXCEPT !.cancelled = TRUE]})]

\* if (!cancelled) setUri(CACHE[selectedNetwork][address.toLowerCase()]),
\* line 1724, at the end of run
setUri(f, run, pc) ==
  IF notCancelled(run)
  THEN [f EXCEPT !.events = @ \cup {pc},
                 !.consumers[run.consumer].uri =
                    cachedUri(f.CACHE[run.network], run.address)]
  ELSE [f EXCEPT !.events = @ \cup {"stale"}]

\* the effect of component c runs: fetchTokenLogo() up to its first await,
\* lines 1684-1706. Object.keys(CACHE[selectedNetwork]) throws for a network
\* that is no key of CACHE, and nothing catches the rejection
startRun(f, c) ==
  LET run == [consumer |-> c, network |-> f.selected,
              address |-> f.consumers[c].address, cancelled |-> FALSE,
              pc |-> "fetch"]
  IN  IF run.address = ""
      THEN [f EXCEPT !.events = @ \cup {"noAddress"}]
      ELSE IF run.network \notin DOMAIN f.CACHE
      THEN [f EXCEPT !.events = @ \cup {"unsupported", "uncaught"}]
      ELSE IF cacheIsEmpty(f.CACHE[run.network])
      THEN [f EXCEPT !.runs = @ (+) SetToBag({run}),
                     !.events = IF run.network \in f.fetched
                                THEN @ \cup {"refetch"} ELSE @]
      ELSE setUri(f, run, "cached")

\* the effects of the components of cs run one after the other
RECURSIVE startRuns(_, _)
startRuns(f, cs) ==
  IF cs = {} THEN f
  ELSE LET c == CHOOSE x \in cs : \A y \in cs : x <= y
       IN  startRuns(startRun(cleanup(f, c), c), cs \ {c})

MountedConsumers(f) == {c \in Consumers : f.consumers[c].mounted}

\* f without run, which ends in this step
endRun(f, run) ==
  [f EXCEPT !.runs = @ (-) SetToBag({run}),
            !.events = {}]

\* f at the start of a step in which effects run
rendered(f) == [f EXCEPT !.events = {}]

\* the runs a component may have at an await
Runs ==
  [consumer : Consumers, network : IconNetworks, address : IconAddrs \ {""},
   cancelled : BOOLEAN, pc : {"fetch", "json"}]

\* run is at the await of pc
atAwait(run, pc) ==
  /\ fn.op = "useTokenIcon"
  /\ BagIn(run, fn.runs)
  /\ run.pc = pc

InitIcon ==
  /\ version \in {1, 2}
  /\ state = INITIAL_STATE(version)
  /\ network = "mainnet"
  /\ price = FALSE
  /\ calls = <<>>
  /\ started = 0
  /\ ev = Quiet
  /\ bulk = Idle
  /\ watch = FALSE
  /\ fn = NoIcons

iconStep(f) == fn' = f /\ UNCHANGED program

\* a component that calls useTokenIcon(address) is mounted
mountIcon(c, address) ==
  /\ fn.op = "useTokenIcon" /\ BagCardinality(fn.runs) < MaxRuns
  /\ ~fn.consumers[c].mounted
  /\ iconStep(startRun([rendered(fn) EXCEPT !.consumers[c] =
                          [mounted |-> TRUE, address |-> address,
                           uri |-> NoUri]], c))

\* the component is rendered with another address: [selectedNetwork, address]
\* changes, line 1730
changeIconAddress(c, address) ==
  /\ fn.op = "useTokenIcon" /\ BagCardinality(fn.runs) < MaxRuns
  /\ fn.consumers[c].mounted /\ fn.consumers[c].address # address
  /\ iconStep(startRun(cleanup([rendered(fn) EXCEPT !.consumers[c].address = address],
                                c), c))

\* the component is unmounted
unmountIcon(c) ==
  /\ fn.op = "useTokenIcon"
  /\ fn.consumers[c].mounted
  /\ iconStep([cleanup(rendered(fn), c) EXCEPT !.consumers[c] = NoIcons.consumers[c]])

\* useSelectedNetwork() returns another network to every component
selectIconNetwork(n) ==
  /\ fn.op = "useTokenIcon" /\ n # fn.selected
  /\ BagCardinality(fn.runs) + Cardinality(MountedConsumers(fn)) <= MaxRuns
  /\ iconStep(startRuns([rendered(fn) EXCEPT !.selected = n], MountedConsumers(fn)))

\* fetch(tokenListURL) rejects, lines 1705-1710
fetchThrows(run) ==
  /\ atAwait(run, "fetch")
  /\ iconStep([endRun(fn, run) EXCEPT !.events = {"threw"}])

\* fetch(tokenListURL) resolves with a response that is not OK, lines
\* 1711-1714
fetchNotOk(run) ==
  /\ atAwait(run, "fetch")
  /\ iconStep([endRun(fn, run) EXCEPT !.events = {"notOk"}])

\* fetch(tokenListURL) resolves with an OK response, and response.json() is
\* awaited, line 1715
fetchOk(run) ==
  /\ atAwait(run, "fetch")
  /\ iconStep([rendered(fn) EXCEPT
       !.runs = (@ (-) SetToBag({run})) (+) SetToBag({[run EXCEPT !.pc = "json"]})])

\* response.json() rejects, line 1715, and nothing catches it
jsonRejects(run) ==
  /\ atAwait(run, "json")
  /\ iconStep([endRun(fn, run) EXCEPT !.events = {"badJson", "uncaught"}])

\* response.json() resolves, lines 1715-1724: the cache of the network of
\* the run is assigned, and the icon is set behind the flag
jsonResolves(run, tokens) ==
  /\ atAwait(run, "json")
  /\ LET n == run.network
     IN  iconStep(setUri([endRun(fn, run) EXCEPT
           !.CACHE[n] = reduceTokens(tokens, ChainIdForSupportedNetwork[n]),
           !.events = IF n \in fn.fetched THEN {"rewrite"} ELSE {},
           !.fetched = @ \cup {n}], run, "filled"))

NextIcon ==
  \/ \E c \in Consumers, a \in IconAddrs : mountIcon(c, a)
  \/ \E c \in Consumers, a \in IconAddrs : changeIconAddress(c, a)
  \/ \E c \in Consumers : unmountIcon(c)
  \/ \E n \in IconNetworks : selectIconNetwork(n)
  \/ \E run \in Runs : fetchThrows(run)
  \/ \E run \in Runs : fetchNotOk(run)
  \/ \E run \in Runs : fetchOk(run)
  \/ \E run \in Runs : jsonRejects(run)
  \/ \E run \in Runs, tokens \in TokenLists : jsonResolves(run, tokens)

SpecIcon == InitIcon /\ [][NextIcon]_vars


----------------------------------------------------------------------------
(* The fetches in flight at a RESET or at the unmount of their hook: the   *)
(* effects of lines 692-702, 715-721, 808-816, 600-614 and 551-589 return  *)
(* no cleanup function                                                     *)

\* nothing was reset or unmounted yet
NothingObserved ==
  [op |-> "inFlight",
   reset     |-> FALSE,   \* a RESET was dispatched
   started   |-> 0,       \* the fetches started before the last RESET
   unmounted |-> {}]      \* the fetches whose component was unmounted since

InitReset ==
  /\ version \in {1, 2}
  /\ state = INITIAL_STATE(version)
  /\ network = "mainnet"
  /\ price = TRUE
  /\ calls = <<>>
  /\ started = 0
  /\ ev = Quiet
  /\ bulk = Idle
  /\ watch = FALSE
  /\ fn = NothingObserved

\* usePairContextResetter, lines 831-834, while fetches are in flight: the
\* reducer clears the store and the fetches go on
resetInFlight ==
  /\ reset
  /\ fn.op = "inFlight"
  /\ fn' = [fn EXCEPT !.reset = TRUE, !.started = started]
  /\ UNCHANGED <<version, network, price, calls, started, bulk, watch>>

\* the component of the hook that started calls[i] is unmounted: no effect
\* has a cleanup, so that nothing of the fetch changes
unmountHook(i) ==
  /\ Pending(i)
  /\ fn.op = "inFlight" /\ calls[i] \notin fn.unmounted
  /\ fn' = [fn EXCEPT !.unmounted = @ \cup {calls[i]}]
  /\ ev' = Quiet
  /\ UNCHANGED <<version, state, network, price, calls, started, bulk, watch>>

\* the hooks of one pair page and the Updater, once the price is known
NextReset ==
  \/ usePairDataEffect(ThePair)
  \/ usePairTransactionsEffect(ThePair)
  \/ usePairChartDataEffect(ThePair)
  \/ usePairRateDataEffect(ThePair, "1 week", IntervalHour)
  \/ UpdaterEffect
  \/ \E i \in 1 .. MaxFetches : usePairDataDone(i)
  \/ \E i \in 1 .. MaxFetches : usePairTransactionsDone(i)
  \/ \E i \in 1 .. MaxFetches : usePairChartDataDone(i)
  \/ \E i \in 1 .. MaxFetches : usePairRateDataDone(i)
  \/ \E i \in 1 .. MaxFetches : UpdaterDone(i)
  \/ resetInFlight
  \/ \E i \in 1 .. MaxFetches : unmountHook(i)

SpecReset == InitReset /\ [][NextReset]_vars


----------------------------------------------------------------------------
(* getPairChartData, lines 407-423: the walk through the pages of          *)
(* pairDayDatas                                                            *)

\* the most day points the indexer holds for a pair
MaxDayDatas == 2001

\* the size of a page of the PAIR_CHART query
PageSize == 1000

\* the day points of a pair in the order of the query, each one told from
\* the others by its rank
dayPoints(n) == [i \in 1 .. n |-> i]

\* the answer of the indexer to PAIR_CHART with the given skip: the next
\* PageSize points after the first skip ones
pairDayDatas(points, skip) ==
  SubSeq(points, skip + 1, IF skip + PageSize < Len(points)
                           THEN skip + PageSize ELSE Len(points))

\* a walk whose pages overlap
nextSkip_Overlapping(skip) == skip + 999

\* skip += 1000, line 418
nextSkip(skip) == skip + 1000

\* result.data.pairDayDatas.length < 1000, line 420
allFound(page) == Len(page) < 1000

WalkCalls ==
  {[op     |-> "pairDayDatas",
    pc     |-> "query",
    points |-> dayPoints(n),  \* what the indexer holds
    skip   |-> 0,             \* let skip = 0
    skips  |-> <<>>,          \* the skip of every query made
    data   |-> <<>>,          \* let data = []
    caught |-> FALSE] : n \in 0 .. MaxDayDatas}

InitWalk ==
  /\ version \in {1, 2}
  /\ state = INITIAL_STATE(version)
  /\ network = "mainnet"
  /\ price = FALSE
  /\ calls = <<>>
  /\ started = 0
  /\ ev = Quiet
  /\ bulk = Idle
  /\ watch = FALSE
  /\ fn \in WalkCalls

\* one turn of the loop of lines 410-423
queryPage ==
  /\ fn.op = "pairDayDatas" /\ fn.pc = "query"
  /\ LET page == pairDayDatas(fn.points, fn.skip)
     IN  fn' = [fn EXCEPT !.skips = Append(@, fn.skip),
                          !.skip = nextSkip(@),
                          !.data = @ \o page,
                          !.pc = IF allFound(page) THEN "found" ELSE "query"]
  /\ UNCHANGED program

\* the query of lines 411-417 rejects: the catch of line 463 keeps what was
\* collected
queryPageRejects ==
  /\ fn.op = "pairDayDatas" /\ fn.pc = "query"
  /\ fn' = [fn EXCEPT !.skips = Append(@, fn.skip), !.pc = "found", !.caught = TRUE]
  /\ UNCHANGED program

NextWalk == queryPage \/ queryPageRejects

\* the indexer answers every query in the end
SpecWalk == InitWalk /\ [][NextWalk]_vars /\ WF_vars(NextWalk)

----------------------------------------------------------------------------
(* Properties of the Cache Store *)

PerEntityTypes == {UPDATE, UPDATE_PAIR_TXNS, UPDATE_CHART_DATA, UPDATE_HOURLY_DATA}

SevenTypes == PerEntityTypes \cup {UPDATE_MINING_DATA, UPDATE_TOP_PAIRS, RESET}

\* the step dispatched a mutation of one of the given types
Dispatched(types) == ev'.t = "dispatch" /\ ev'.type \in types

\* the key a per-entity mutation is addressed to
TargetKey(e) == IF e.type = UPDATE THEN e.payload.pairAddress ELSE e.payload.address

Keys(st) == DOMAIN st

\* C1: a per-entity mutation addressed to key X (UPDATE, UPDATE_PAIR_TXNS,
\* UPDATE_CHART_DATA, UPDATE_HOURLY_DATA) leaves the entry under every other
\* key as it was: the other pairs, the topPairs partition and the
\* mining-campaign entries.
C1_OtherKeysUntouched ==
  [][Dispatched(PerEntityTypes) =>
       \A k \in (Keys(state) \cup Keys(state')) \ {TargetKey(ev')} :
          Entry(state', k) = Entry(state, k)]_vars

\* a per-entity mutation has just been applied while another key had an entry
C1_Witness ==
  /\ ev.t = "dispatch" /\ ev.type \in PerEntityTypes
  /\ \E k \in Addrs \cup STATUS : k # TargetKey(ev) /\ Has(state, k)

\* the fields of X's record that a mutation is allowed to change
TargetFields(e) ==
  CASE e.type = UPDATE -> IF Has(e.payload, "data") THEN DOMAIN e.payload.data ELSE {}
    [] e.type = UPDATE_PAIR_TXNS -> {"txns"}
    [] e.type = UPDATE_CHART_DATA -> {"chartData"}
    [] e.type = UPDATE_HOURLY_DATA ->
         IF version = 1 THEN {e.payload.timeWindow} ELSE {"hourlyData"}

\* the keys of the series map that UPDATE_HOURLY_DATA is allowed to change
TargetSeries(e) == IF version = 1 THEN {e.payload.interval} ELSE {e.payload.timeWindow}

\* the map of series that UPDATE_HOURLY_DATA writes into
SeriesMap(rec, e) ==
  IF version = 1 THEN Spread(rec, e.payload.timeWindow) ELSE Spread(rec, "hourlyData")

\* C2: a per-entity mutation on X changes only the targeted part of X's
\* record: UPDATE the fields of the partial record, UPDATE_CHART_DATA
\* chartData, UPDATE_PAIR_TXNS txns, UPDATE_HOURLY_DATA the series of that
\* (timeWindow, interval); every other field and every other series keeps its
\* value.
C2_OnlyTargetedPartChanges ==
  [][Dispatched(PerEntityTypes) =>
       LET old == Spread(state, TargetKey(ev'))
           new == Spread(state', TargetKey(ev'))
       IN  /\ \A f \in (DOMAIN old \cup DOMAIN new) \ TargetFields(ev') :
                Entry(new, f) = Entry(old, f)
           /\ ev'.type = UPDATE_HOURLY_DATA =>
                \A k \in (DOMAIN SeriesMap(old, ev') \cup DOMAIN SeriesMap(new, ev'))
                          \ TargetSeries(ev') :
                   Entry(SeriesMap(new, ev'), k) = Entry(SeriesMap(old, ev'), k)]_vars

\* chart data has just been stored for a pair that has transactions, or a
\* series for a pair that has the series of another interval of the window
C2_Witness ==
  /\ ev.t = "dispatch"
  /\ \/ /\ ev.type = UPDATE_CHART_DATA
        /\ Has(state[ev.payload.address], "txns")
     \/ /\ ev.type = UPDATE_HOURLY_DATA /\ version = 1
        /\ Cardinality(DOMAIN state[ev.payload.address][ev.payload.timeWindow]) > 1

\* useAllPairData, lines 824-829 (and 1659-1662): the top pairs a consumer reads
useAllPairData(st, net) ==
  IF version = 1 THEN Spread(st.topPairs, net) ELSE st

\* every read of a pair, of one of its series or of a mining status is undefined
NothingCached(st) == \A k \in Addrs \cup STATUS : ~Has(st, k)

\* C3 as stated: after RESET every read of a per-entity key and of a mining
\* status is undefined, and the top pairs of every network are what they
\* were before the reset.
C3_AsStated ==
  [][Dispatched({RESET}) =>
       /\ NothingCached(state')
       /\ \A n \in Networks : useAllPairData(state', n) = useAllPairData(state, n)]_vars

\* C3, amended: after RESET every read of a per-entity key and of a mining
\* status is undefined; the first version keeps the topPairs partition of
\* every network as it was, the second version returns to its empty initial
\* state, top pairs included.
C3_ResetClearsAllButPreservedTopPairs ==
  [][Dispatched({RESET}) =>
       /\ NothingCached(state')
       /\ version = 1 => /\ Keys(state') = {"topPairs"}
                         /\ state'.topPairs = state.topPairs
       /\ version = 2 => state' = INITIAL_STATE_2]_vars

\* a RESET has just been applied to a first-version store that holds top pairs
C3_Witness ==
  /\ ev.t = "dispatch" /\ ev.type = RESET
  /\ version = 1
  /\ \E n \in Networks : Has(state.topPairs, n) /\ state.topPairs[n] # EmptyObj

\* C4 as stated: UPDATE_TOP_PAIRS(list, network) makes the top pairs of that
\* network exactly the map id -> record of the list, and leaves the top pairs
\* of the other networks and every per-entity entry of the store as they were.
C4_AsStated ==
  [][Dispatched({UPDATE_TOP_PAIRS}) =>
       /\ \A n \in Networks :
            version = 1 /\ n # ev'.payload.network =>
              Entry(state'.topPairs, n) = Entry(state.topPairs, n)
       /\ LET new == IF version = 1 THEN state'.topPairs[ev'.payload.network]
                     ELSE state'
          IN  new = [id \in {ev'.payload.topPairs[i].id :
                               i \in 1 .. Len(ev'.payload.topPairs)} |->
                       CHOOSE r \in {ev'.payload.topPairs[i] :
                                       i \in 1 .. Len(ev'.payload.topPairs)} : r.id = id]
       /\ \A k \in Keys(state) \ {"topPairs"} :
            Has(state', k) /\ state'[k] = state[k]]_vars

----------------------------------------------------------------------------
(* Properties of the staleness checks and of the fetches *)

StalenessHooks ==
  {"usePairData", "usePairTransactions", "usePairChartData", "usePairRateData"}

\* the store has no entry, or no sub-entry, for exactly the key of the call
NoEntryFor(call, st) ==
  CASE call.hook = "usePairData" -> ~Has(st, call.address)
    [] call.hook = "usePairTransactions" -> Entry(Spread(st, call.address), "txns") = {}
    [] call.hook = "usePairChartData" -> Entry(Spread(st, call.address), "chartData") = {}
    [] call.hook = "usePairRateData" ->
         hourlySeries(st, call.address, call.timeWindow, call.interval) = {}

\* the store has no derived record for the pair: no entry, or (first version)
\* an entry that other hooks created and that carries no id
NoRecordFor(call, st) ==
  IF version = 1 THEN Entry(Spread(st, call.address), "id") = {}
  ELSE ~Has(st, call.address)

\* C5 as stated: every evaluation of the staleness check of usePairData,
\* usePairChartData, usePairTransactions and usePairRateData issues a fetch if
\* and only if the store has no entry (or sub-entry) for exactly its key.
C5_AsStated ==
  [][/\ started' = started + 1 /\ calls'[Len(calls')].hook \in StalenessHooks
          => NoEntryFor(calls'[Len(calls')], state)
     /\ ev'.t = "skipped" /\ ev'.call.hook \in StalenessHooks
          => ~NoEntryFor(ev'.call, state)]_vars

\* C5, amended: usePairChartData, usePairTransactions and usePairRateData issue
\* a fetch if and only if the store has no sub-entry for exactly their key;
\* usePairData issues one if and only if the native currency price is known
\* and the store has no derived record for the pair (no entry; in the first
\* version also an entry without id).
C5_FetchIffMissingAndPriced ==
  [][/\ started' = started + 1 /\ calls'[Len(calls')].hook \in StalenessHooks
          => LET c == calls'[Len(calls')]
             IN  IF c.hook = "usePairData" THEN NoRecordFor(c, state) /\ price
                 ELSE NoEntryFor(c, state)
     /\ ev'.t = "skipped" /\ ev'.call.hook \in StalenessHooks
          => LET c == ev'.call
             IN  IF c.hook = "usePairData" THEN ~(NoRecordFor(c, state) /\ price)
                 ELSE ~NoEntryFor(c, state)]_vars

\* usePairData has just skipped its fetch for a pair whose record is cached
\* although the price is known
C5_Witness ==
  /\ ev.t = "skipped" /\ ev.call.hook = "usePairData" /\ price
  /\ Has(state, ev.call.address) /\ Has(state[ev.call.address], "id")

\* the part of the store a dispatch of the given type writes, after the
\* dispatch e
WrittenPart(st, e) ==
  CASE e.type = UPDATE ->
         [f \in TargetFields(e) |-> st[e.payload.pairAddress][f]]
    [] e.type = UPDATE_PAIR_TXNS -> st[e.payload.address].txns
    [] e.type = UPDATE_CHART_DATA -> st[e.payload.address].chartData
    [] e.type = UPDATE_HOURLY_DATA ->
         IF version = 1
         THEN st[e.payload.address][e.payload.timeWindow][e.payload.interval]
         ELSE st[e.payload.address].hourlyData[e.payload.timeWindow]

\* the result the dispatch e applies
AppliedResult(e) ==
  CASE e.type = UPDATE -> Spread(e.payload, "data")
    [] e.type = UPDATE_PAIR_TXNS -> e.payload.transactions
    [] e.type = UPDATE_CHART_DATA -> e.payload.chartData
    [] e.type = UPDATE_HOURLY_DATA ->
         IF version = 1 THEN e.payload.data ELSE e.payload.hourlyData

\* the parts of a pair's record that the fetches of other hooks write
OtherParts == {"chartData", "txns"}

\* C6: when fetches for the same key complete in any order, each completion
\* makes the cache value of that key the result it applies, so that the value
\* after all of them is the one applied last; and no completion, the
\* Updater's included, changes another key, another part of the record or
\* another series.
C6_LastWriteWinsOnItsPartOnly ==
  [][/\ Dispatched(PerEntityTypes) =>
          /\ WrittenPart(state', ev') = AppliedResult(ev')
          /\ \A k \in (Keys(state) \cup Keys(state')) \ {TargetKey(ev')} :
               Entry(state', k) = Entry(state, k)
          /\ LET old == Spread(state, TargetKey(ev'))
                 new == Spread(state', TargetKey(ev'))
             IN  \A f \in (DOMAIN old \cup DOMAIN new) \ TargetFields(ev') :
                    Entry(new, f) = Entry(old, f)
     /\ Dispatched({UPDATE_TOP_PAIRS}) =>
          \A a \in Addrs : \A f \in OtherParts :
             Entry(Spread(state', a), f) = Entry(Spread(state, a), f)]_vars

\* the step completed a fetch that failed, for the call c
Failed ==
  \/ ev'.t \in {"uncaught", "noResult"}
  \/ ev'.t = "dispatch" /\ Has(ev', "failed") /\ ev'.failed

\* the call the step completed
CompletedCalls == {calls[i] : i \in {j \in 1 .. Len(calls) : calls' = Remove(calls, j)}}

\* C8: a failed fetch produces no cache entry: the store has no entry or
\* sub-entry for its key afterwards if it had none before.
C8_FailedFetchStoresNothing ==
  [][Failed =>
       \A c \in CompletedCalls :
          c.hook \in StalenessHooks /\ NoEntryFor(c, state) => NoEntryFor(c, state')]_vars

\* C9: no failure at a network boundary leaves a fetch function or an effect
\* as an uncaught error.
C9_NoUncaughtError == ev.t # "uncaught"

\* C10: a dispatch whose type is none of the seven makes the reducer throw and
\* leaves the store as it was.
C10_UnknownTypeThrows ==
  [][ev'.t \in {"dispatch", "reducerThrew"} /\ ev'.type \notin SevenTypes =>
       ev'.t = "reducerThrew" /\ state' = state]_vars

\* the reducer has just thrown on a store that holds data
C10_Witness == ev.t = "reducerThrew" /\ \E k \in Addrs : Has(state, k)


(* C7 *)

\* C7: whenever a stage inside the try of getBulkPairData throws, the call
\* returns undefined and never a list of records, and the step in which its
\* caller (Updater or usePairData) resumes leaves the store as it was.
C7_ThrowInsideReturnsNothing ==
  [][ /\ (bulk'.pc = "returned" /\ bulk'.caught)
          => bulk'.result = [kind |-> "undefined"]
      /\ (bulk.pc = "returned" /\ bulk.caught /\ bulk'.pc = "idle")
          => state' = state /\ ev'.t = "noResult" ]_vars

\* a fallback query threw after another pair of the batch had been derived,
\* and the call returned undefined
C7_Witness ==
  /\ bulk.pc = "returned"
  /\ bulk.caught
  /\ bulk.result.kind = "undefined"
  /\ \E id \in DOMAIN bulk.answered : Derived(bulk, id)
  /\ \E id \in DOMAIN bulk.answered : ~Derived(bulk, id)


----------------------------------------------------------------------------
(* Properties of getBulkPairData *)

\* C11: when the result of the block resolver lacks the element of one of the
\* three reference timestamps, getBulkPairData does not fail: the call is not
\* rejected and goes on with that window treated as absent.
C11_UnresolvedTimestampFailsSoft ==
  ~(bulk.pc = "rejected" /\ bulk.result.why = "unresolved")

\* C14: when getBulkPairData succeeds it returns one record per pair of the
\* current result, in the same order, each with the id of its pair.
C14_OneRecordPerCurrentPair ==
  bulk.pc = "returned" /\ ~bulk.caught =>
    /\ bulk.result.kind = "list"
    /\ Len(bulk.result.list) = Len(bulk.current)
    /\ \A n \in 1 .. Len(bulk.current) : bulk.result.list[n].id = bulk.current[n]

\* two records have been returned, the first pair having needed fallback
\* queries and the second none
C14_Witness ==
  /\ bulk.pc = "returned" /\ ~bulk.caught
  /\ Len(bulk.current) = 2
  /\ Missing(bulk, bulk.current[1]) # <<>>
  /\ Missing(bulk, bulk.current[2]) = <<>>


----------------------------------------------------------------------------
(* Properties of the swap fees *)

\* the index of id in the list of ids sent
IndexOf(pairIds, id) == CHOOSE n \in DOMAIN pairIds : pairIds[n] = id

\* the fee lookup of id failed: the multicall rejected, its list has not the
\* length of the list sent, or the blob of id or of an id before it could not
\* be decoded
LookupFailed(c, id) ==
  \/ c.answer.kind = "rejected"
  \/ Len(c.answer.returnData) # Len(c.pairIds)
  \/ \E n \in 1 .. IndexOf(c.pairIds, id) : ~c.answer.returnData[n].ok

\* C12: every record has a swapFee that is the value the multicall returned
\* for its id or exactly 25, and 25 when the fee lookup of the id failed; the
\* failure of a lookup drops no record.
C12_SwapFeeFetchedOrDefault ==
  fn.op = "getPairsSwapFee" /\ fn.pc = "recorded" =>
    /\ Len(fn.records) = Len(fn.current)
    /\ \A n \in DOMAIN fn.records :
         LET id == fn.records[n].id
         IN  /\ id = fn.current[n]
             /\ IF LookupFailed(fn, id)
                THEN fn.records[n].swapFee = DefaultSwapFee
                ELSE fn.records[n].swapFee \in
                       {fn.answer.returnData[IndexOf(fn.pairIds, id)].fee,
                        DefaultSwapFee}

\* two records: the fee of the first was returned by the multicall, the blob
\* of the second could not be decoded
C12_Witness ==
  /\ fn.op = "getPairsSwapFee" /\ fn.pc = "recorded"
  /\ Len(fn.records) = 2
  /\ fn.records[1].swapFee \in FeeVals \ {0}
  /\ LookupFailed(fn, fn.records[2].id)
  /\ fn.records[2].swapFee = DefaultSwapFee

\* C13: when the multicall returns a list whose length differs from the number
\* of ids sent, no blob of it is used: the lookup returns no fee at all, and
\* every record of the batch is there with swapFee 25.
C13_LengthMismatchUsesNoBlob ==
  /\ fn.op = "getPairsSwapFee" /\ fn.pc \in {"returned", "recorded"}
     /\ fn.answer.kind = "returnData"
     /\ Len(fn.answer.returnData) # Len(fn.pairIds)
     => fn.fees = EmptyObj
  /\ fn.op = "getPairsSwapFee" /\ fn.pc = "recorded"
     /\ fn.answer.kind = "returnData"
     /\ Len(fn.answer.returnData) # Len(fn.pairIds)
     => /\ Len(fn.records) = Len(fn.current)
        /\ \A n \in DOMAIN fn.records : fn.records[n].swapFee = DefaultSwapFee

\* two ids were sent, the multicall returned three decodable blobs, and the
\* two records have swapFee 25
C13_Witness ==
  /\ fn.op = "getPairsSwapFee" /\ fn.pc = "recorded"
  /\ Len(fn.pairIds) = 2 /\ Len(fn.current) = 2
  /\ fn.answer.kind = "returnData"
  /\ Len(fn.answer.returnData) = 3
  /\ \A n \in 1 .. 3 : fn.answer.returnData[n].ok /\ fn.answer.returnData[n].fee # 0
  /\ \A n \in 1 .. 2 : fn.records[n].swapFee = DefaultSwapFee


----------------------------------------------------------------------------
(* Properties of the Metric Derivation *)

Parsed == fn.op = "parseData" /\ fn.pc = "returned"

\* the indexer has a snapshot of the pair at a reference block exactly when
\* the pair was created at that block or before it
Consistent(c) ==
  /\ c.oneDayData.has  <=> c.data.createdAtBlockNumber <= c.blocks[1]
  /\ c.twoDayData.has  <=> c.data.createdAtBlockNumber <= c.blocks[2]
  /\ c.oneWeekData.has <=> c.data.createdAtBlockNumber <= c.blocks[3]

\* C15: a record of parseData whose one-day snapshot is absent and whose pair
\* was created after the one-day reference block has the lifetime volume of
\* the pair as its one-day volume.
C15_YoungPairOneDayVolumeIsLifetime ==
  Parsed /\ ~fn.oneDayData.has /\ fn.data.createdAtBlockNumber > fn.blocks[1] =>
    fn.result.oneDayVolumeUSD = fn.data.volumeUSD

\* a pair with volume, created after the one-day reference block and without
\* a one-day snapshot, though the snapshot of two days ago is there
C15_Witness ==
  /\ Parsed /\ ~fn.oneDayData.has /\ fn.data.createdAtBlockNumber > fn.blocks[1]
  /\ fn.twoDayData.has /\ fn.twoDayData.volumeUSD > 0
  /\ fn.data.volumeUSD = MaxVolume
  /\ fn.result.oneDayVolumeUSD = MaxVolume

\* C16: whenever the pair was created after the one-day reference block, the
\* one-day volume of its record is its lifetime volume, also when a one-day
\* snapshot is present.
C16_CreationAfterReferenceForcesLifetime ==
  Parsed /\ fn.data.createdAtBlockNumber > fn.blocks[1] =>
    fn.result.oneDayVolumeUSD = fn.data.volumeUSD

\* C17: the week volume of a record is the current cumulative volume minus
\* that of the one-week snapshot when there is one, and the lifetime volume
\* of the pair when there is none.
C17_OneWeekVolume ==
  Parsed =>
    fn.result.oneWeekVolumeUSD =
      IF fn.oneWeekData.has THEN fn.data.volumeUSD - fn.oneWeekData.volumeUSD
      ELSE fn.data.volumeUSD

\* a one-week snapshot with volume, and a week volume smaller than the
\* lifetime volume
C17_Witness ==
  /\ Parsed /\ fn.oneWeekData.has /\ fn.oneWeekData.volumeUSD > 0
  /\ fn.result.oneWeekVolumeUSD = fn.data.volumeUSD - fn.oneWeekData.volumeUSD
  /\ fn.result.oneWeekVolumeUSD > 0

\* C18 as stated: the one-week fallback runs exactly when the creation block
\* is greater than the one-week reference block, and the one-day volume is
\* computed from the real one-day snapshot exactly when the creation block is
\* less than the one-day reference block.
C18_AsStated ==
  Parsed =>
    /\ fn.result.oneWeekForced <=> fn.data.createdAtBlockNumber > fn.blocks[3]
    /\ ~fn.result.oneDayForced <=> fn.data.createdAtBlockNumber < fn.blocks[1]

\* C18: when the indexer has a snapshot of a pair at a reference block exactly
\* if the pair was created at that block or before it, the one-week fallback
\* runs exactly when the creation block is greater than the one-week
\* reference block, and the one-day volume is computed from the real one-day
\* snapshot exactly when the creation block is less than or equal to the
\* one-day reference block.
C18_FallbackFollowsSnapshots ==
  Parsed /\ Consistent(fn) =>
    /\ fn.result.oneWeekForced <=> fn.data.createdAtBlockNumber > fn.blocks[3]
    /\ fn.result.oneWeekForced => fn.result.oneWeekVolumeUSD = fn.data.volumeUSD
    /\ ~fn.result.oneDayForced <=> fn.data.createdAtBlockNumber <= fn.blocks[1]

\* blocks [100, 90, 10] and a pair created at block 95: the one-day volume is
\* computed from the one-day snapshot, the week volume is the lifetime volume
C18_Witness ==
  /\ Parsed /\ Consistent(fn)
  /\ fn.blocks = <<100, 90, 10>> /\ fn.data.createdAtBlockNumber = 95
  /\ fn.oneDayData.volumeUSD > 0
  /\ ~fn.result.oneDayForced
  /\ fn.result.oneDayVolumeUSD = fn.data.volumeUSD - fn.oneDayData.volumeUSD
  /\ fn.result.oneWeekForced
  /\ fn.result.oneWeekVolumeUSD = fn.data.volumeUSD

\* the cumulative volume of a snapshot, an absent one counted as 0
Cumulated(snapshot) == IF snapshot.has THEN snapshot.volumeUSD ELSE 0

\* C19: with current, t1d and t2d the cumulative volumes now, one day ago and
\* two days ago (an absent snapshot counted as 0), the one-day volume of the
\* record is current - t1d, and its volume change is the percent change of
\* that against t1d - t2d, 0% when t1d - t2d is 0.
C19_TwoWindowPercentChange ==
  Parsed =>
    LET current == fn.data.volumeUSD
        t1d     == Cumulated(fn.oneDayData)
        t2d     == Cumulated(fn.twoDayData)
    IN  /\ fn.result.oneDayVolumeUSD = current - t1d
        /\ fn.result.volumeChangeUSD =
             IF t1d - t2d = 0 THEN ZeroPercent
             ELSE Percent(((current - t1d) - (t1d - t2d)) * 100, t1d - t2d)

\* both snapshots are there, and the volume of the last day is larger than
\* that of the day before, which is not 0
C19_Witness ==
  /\ Parsed /\ fn.oneDayData.has /\ fn.twoDayData.has
  /\ fn.oneDayData.volumeUSD - fn.twoDayData.volumeUSD > 0
  /\ fn.result.oneDayVolumeUSD > 0
  /\ fn.result.volumeChangeUSD.num > 0


----------------------------------------------------------------------------
(* Properties of the daily series *)

\* the earliest calendar day of the points of a list
EarliestDay(data) ==
  CHOOSE d \in dayIndexSet(data) : \A e \in dayIndexSet(data) : d <= e

\* C20: whatever the order of the fetched points and however many of them
\* are of the same day, the series returned is strictly ascending by date and
\* has exactly one point of every calendar day from the day of the earliest
\* point to the day of now minus one day.
C20_OnePointPerDayAscending ==
  fn.op = "getPairChartData" /\ fn.pc = "returned" /\ fn.fetched # <<>> =>
    /\ \A n \in 1 .. Len(fn.result) - 1 : fn.result[n].date < fn.result[n + 1].date
    /\ \A d \in EarliestDay(fn.fetched) .. dayIndex(utcEndTime - oneDay) :
         Cardinality({n \in DOMAIN fn.result : dayIndex(fn.result[n].date) = d}) = 1


\* the points of the result that the walk synthesized: those of a day no
\* fetched point is of
Synthesized(c) ==
  {n \in DOMAIN c.result : dayIndex(c.result[n].date) \notin dayIndexSet(c.fetched)}

\* the fetched points dated before date that no other fetched point dated
\* before date is later than
LatestBefore(fetched, date) ==
  {n \in DOMAIN fetched :
     /\ fetched[n].date < date
     /\ \A k \in DOMAIN fetched :
          fetched[k].date < date => fetched[k].date <= fetched[n].date}

\* C21: every synthesized point of the series has volume 0 and the reserve
\* of the latest fetched point dated before it, and every fetched point is in
\* the series with its own values.
C21_SynthesizedCarryLatestReserve ==
  fn.op = "getPairChartData" /\ fn.pc = "returned" =>
    /\ \A n \in Synthesized(fn) :
         /\ fn.result[n].dailyVolumeUSD = 0
         /\ \E k \in LatestBefore(fn.fetched, fn.result[n].date) :
              fn.result[n].reserveUSD = fn.fetched[k].reserveUSD
    /\ \A k \in DOMAIN fn.fetched : \E n \in DOMAIN fn.result :
         fn.result[n] = fn.fetched[k]


----------------------------------------------------------------------------
(* Properties of the hourly candles *)

RateReturned == fn.op = "getPairRateData" /\ fn.pc = "returned"

\* C22: when the rates of N >= 1 boundaries were read, each of the two series
\* has N - 1 candles; candle i has the timestamp of boundary i, opens at its
\* rate and closes at the rate of boundary i + 1; the two series have the
\* same timestamps.
C22_OneCandleLessThanSamples ==
  RateReturned /\ Len(fn.values) >= 1 =>
    /\ Len(fn.result) = 2
    /\ \A s \in 1 .. 2 :
         /\ Len(fn.result[s]) = Len(fn.values) - 1
         /\ \A i \in 1 .. Len(fn.values) - 1 :
              /\ fn.result[s][i].timestamp = fn.values[i].timestamp
              /\ fn.result[s][i].open =
                   (IF s = 1 THEN fn.values[i].rate0 ELSE fn.values[i].rate1)
              /\ fn.result[s][i].close =
                   (IF s = 1 THEN fn.values[i + 1].rate0 ELSE fn.values[i + 1].rate1)
    /\ \A i \in 1 .. Len(fn.values) - 1 :
         fn.result[1][i].timestamp = fn.result[2][i].timestamp

\* three samples with different rates, two candles
C22_Witness ==
  /\ RateReturned /\ Len(fn.values) = 3
  /\ Len(fn.result[1]) = 2
  /\ fn.result[1][2].open # fn.result[1][2].close
  /\ ~fn.result[1][2].close.nan /\ ~fn.result[1][2].open.nan

\* C23: getPairRateData never raises and returns the pair of two series in
\* every case; without boundaries, without resolved blocks and after a failed
\* query it is the pair of two empty series.
C23_AlwaysAPairOfSeries ==
  RateReturned =>
    /\ Len(fn.result) = 2
    /\ fn.timestamps = <<>> \/ fn.blocks = <<>> \/ fn.caught =>
         fn.result = << <<>>, <<>> >>

\* C24: with a latest synced block, no block beyond it is queried, and no
\* candle opens or closes at the rate of a block beyond it.
C24_NothingBeyondSyncedBlock ==
  fn.op = "getPairRateData" /\ fn.latestBlock # 0 =>
    /\ \A n \in DOMAIN fn.queried : fn.queried[n].number <= fn.latestBlock
    /\ \A n \in DOMAIN fn.values : fn.values[n].block <= fn.latestBlock
    /\ \A s \in DOMAIN fn.result : \A i \in DOMAIN fn.result[s] :
         /\ fn.result[s][i].openBlock <= fn.latestBlock
         /\ fn.result[s][i].closeBlock <= fn.latestBlock

\* three blocks were resolved, the last beyond the synced block: two were
\* queried and one candle was built
C24_Witness ==
  /\ RateReturned /\ fn.latestBlock # 0
  /\ Len(fn.blocks) = 3 /\ fn.blocks[3].number > fn.latestBlock
  /\ Len(fn.queried) = 2
  /\ Len(fn.result) = 2 /\ Len(fn.result[1]) = 1


----------------------------------------------------------------------------
(* Properties of the block references *)

\* C25: a call of getBulkPairData with override blocks never calls the block
\* resolver, and its three historical queries are pinned at exactly the
\* blocks supplied; a call without them calls the resolver once, before its
\* first query, however many pairs it is for.
C25_ResolverSkippedOrCalledOnce ==
  bulk # Idle =>
    /\ bulk.override =>
         /\ bulk.resolverCalls = 0
         /\ bulk.refs = overrideBlocks
         /\ bulk.pinned \in {<<>>, overrideBlocks}
         /\ bulk.pc \in {"entities", "returned"} /\ ~bulk.caught =>
              bulk.pinned = overrideBlocks
    /\ ~bulk.override =>
         bulk.resolverCalls = (IF bulk.pc = "blocks" THEN 0 ELSE 1)

\* the Updater's call for two pairs with override blocks has returned its
\* records
C25_Witness ==
  /\ bulk # Idle /\ bulk.override
  /\ bulk.pc = "returned" /\ ~bulk.caught
  /\ Len(bulk.pairList) = 2 /\ Len(bulk.current) = 2
  /\ bulk.resolverCalls = 0
  /\ bulk.pinned = overrideBlocks


----------------------------------------------------------------------------
(* Properties of the callers of getBulkPairData *)

\* C26: every call of getBulkPairData in flight, of the Updater, of
\* usePairData and of useDataForList, was started with a native currency
\* price and passes that price on to parseData.
C26_FetchesStartWithAPrice ==
  /\ \A i \in DOMAIN calls :
       calls[i].hook \in {"usePairData", "Updater"} => calls[i].price
  /\ fn.op = "useDataForList" =>
       \A n \in DOMAIN fn.pending : fn.pending[n].price

\* the price is gone again while fetches of usePairData and of
\* useDataForList, started with it, are in flight
C26_Witness ==
  /\ ~price
  /\ \E i \in DOMAIN calls : calls[i].hook = "usePairData" /\ calls[i].price
  /\ fn.op = "useDataForList" /\ fn.pending # <<>> /\ fn.pending[1].price

\* C27: once its fetch has completed, the value of useDataForList is a map
\* whose keys are exactly the ids of the list that were in the store or that
\* the fetch returned a record of, each with a record of that id as value.
C27_MapOfIdsToRecords ==
  fn.op = "useDataForList" /\ fn.done =>
    LET map == formattedFetch(fn).value
    IN  /\ formattedFetch(fn).defined
        /\ DOMAIN map = fn.cached \cup fn.got
        /\ \A k \in DOMAIN map :
             /\ k \in Range(fn.pairList)
             /\ Has(map[k], "id") /\ map[k].id = k

\* C28: a pair that a fetch of useDataForList returned a record of has an
\* entry in the store.
C28_FetchedIsStored ==
  fn.op = "useDataForList" => \A id \in fn.got : Has(state, id)


\* two fetches of the same hook for the same key
SameKey(c1, c2) ==
  /\ c1.hook = c2.hook
  /\ c1.hook \in StalenessHooks
  /\ c1.address = c2.address
  /\ c1.hook = "usePairRateData" =>
       c1.timeWindow = c2.timeWindow /\ c1.interval = c2.interval

\* C30: no hook has two fetches for the same key in flight: a run of its
\* effect while its fetch for the key is pending starts no second one.
C30_OneFetchPerKeyInFlight ==
  \A i, j \in DOMAIN calls : i # j => ~SameKey(calls[i], calls[j])


----------------------------------------------------------------------------
(* Properties of the background refresh *)

\* a fetch of the hook for the key is in flight
InFlight(hook, key) ==
  \E i \in DOMAIN calls :
    /\ calls[i].hook = hook
    /\ IF hook = "usePairData" THEN calls[i].address = key
       ELSE calls[i].status = key

\* C29: whenever the key a mounted hook reads is missing from the store
\* while the price is known, a fetch for it is in flight then or later,
\* unless the key gets stored or the price goes away first; for the pair of
\* usePairData and for the statuses of the mining campaigns.
C29_MissingKeyIsFetched ==
  /\ (~Has(state, ThePair) /\ price)
       ~> (InFlight("usePairData", ThePair) \/ Has(state, ThePair) \/ ~price)
  /\ \A status \in STATUS :
       (~Has(state, status) /\ price)
         ~> (\/ InFlight("useLiquidityMiningCampaignData", status)
             \/ Has(state, status) \/ ~price)


----------------------------------------------------------------------------
(* Properties of the queries of getBulkPairData *)

\* the windows of the PAIR_DATA queries made for an entity so far
askedWindows(e) == {e.asked[n].window : n \in DOMAIN e.asked}

\* C31: in a call of getBulkPairData the three historical queries are made
\* before Promise.all is awaited, and the three are answered before the work
\* on any pair starts; the fallback queries of a pair are made in the order
\* one day, two days, one week, each one after the answer of the one before
\* it; and a step of one pair leaves the other pairs where they are
C31_JoinThenSequentialPerEntity ==
  [][ /\ fn'.pc # "map" => fn'.issued = WindowSeq
      /\ fn'.entity # EmptyObj => fn'.answered = Windows
      /\ \A id \in DOMAIN fn'.entity :
           LET e == fn'.entity[id]
           IN  /\ \A n \in 1 .. Len(e.asked) - 1 :
                    windowIndex(e.asked[n].window) < windowIndex(e.asked[n + 1].window)
               /\ Len(e.asked) - e.done = (IF e.status \in {"waiting", "threw"} THEN 1 ELSE 0)
      /\ \A id \in DOMAIN fn.entity :
           fn'.entity[id] # fn.entity[id] =>
             /\ fn.entity[id].status = "waiting"
             /\ \A other \in DOMAIN fn.entity \ {id} :
                  fn'.entity[other] = fn.entity[other] ]_vars

\* one pair waits for its second fallback query while the other one still
\* waits for its first
C31_Witness ==
  /\ fn.op = "getBulkPairData" /\ fn.pc = "entities"
  /\ fn.pairs = <<"0xa", "0xb">>
  /\ Len(fn.entity["0xb"].asked) = 2 /\ fn.entity["0xb"].done = 1
  /\ fn.entity["0xb"].asked[1].window = "oneDay"
  /\ fn.entity["0xb"].asked[2].window = "oneWeek"
  /\ Len(fn.entity["0xa"].asked) = 1 /\ fn.entity["0xa"].done = 0

\* C32: a PAIR_DATA fallback query is made only for a pair and a window whose
\* historical bulk result does not hold the pair, at the block of that
\* window and once at most; a pair whose callback has returned was queried
\* for every such window
C32_FallbackOnlyForMissing ==
  fn.op = "getBulkPairData" =>
    \A id \in DOMAIN fn.entity :
      LET e == fn.entity[id]
      IN  /\ \A n \in DOMAIN e.asked :
               /\ e.asked[n].id = id
               /\ id \notin fn.hist[e.asked[n].window]
               /\ e.asked[n].block = fn.refs[windowIndex(e.asked[n].window)]
               /\ \A k \in DOMAIN e.asked : k # n => e.asked[k].window # e.asked[n].window
          /\ e.status = "derived" =>
               askedWindows(e) = {w \in Windows : id \notin fn.hist[w]}

\* the call returns its list: one pair was looked up for two windows, the
\* other one, held by the three bulk results, for none
C32_Witness ==
  /\ fn.op = "getBulkPairData" /\ fn.result = "list"
  /\ fn.pairs = <<"0xa", "0xb">>
  /\ askedWindows(fn.entity["0xa"]) = {"oneDay", "twoDay"}
  /\ fn.entity["0xa"].done = 2
  /\ fn.entity["0xb"].asked = <<>>
  /\ \A w \in Windows : "0xb" \in fn.hist[w]


----------------------------------------------------------------------------
(* Properties of useTokenIcon *)

\* the runs of the token-icon effect that end in a step
EndingRuns == {run \in BagToSet(fn.runs) : fn'.runs = endRun(fn, run).runs}

\* C33: a run of the token-icon effect that was cleaned up sets no icon when
\* it ends, whenever that is; the icon of a mounted component changes only
\* when its effect runs or when a run of its own that was not cleaned up ends
C33_CancelledRunNeverSetsIcon ==
  [][ fn.op = "useTokenIcon" =>
        /\ \A run \in EndingRuns :
             run.cancelled =>
               fn'.consumers[run.consumer].uri = fn.consumers[run.consumer].uri
        /\ \A c \in Consumers :
             fn'.consumers[c].uri # fn.consumers[c].uri =>
               \/ ~fn.consumers[c].mounted \/ ~fn'.consumers[c].mounted
               \/ "cached" \in fn'.events
               \/ \E run \in EndingRuns :
                    run.consumer = c /\ ~run.cancelled ]_vars

\* the list of a cleaned-up run has arrived and filled the cache with the
\* logo of its token, and no icon is set
C33_Witness ==
  /\ fn.op = "useTokenIcon"
  /\ "stale" \in fn.events
  /\ fn.runs = EmptyBag
  /\ Has(fn.CACHE["mainnet"], "0xa")
  /\ \A c \in Consumers : fn.consumers[c].mounted /\ fn.consumers[c].uri = NoUri


\* C39: once the token list of a network has been fetched, no lookup requests
\* the list of that network again and its cache is assigned no more
C39_FilledAtMostOnce ==
  fn.op = "useTokenIcon" =>
    "refetch" \notin fn.events /\ "rewrite" \notin fn.events

\* C40: a token-icon lookup whose request throws, whose response is not OK or
\* whose network is not supported changes no cache, sets no icon and raises
\* no uncaught error
C40_NoListNoEffect ==
  [][ (fn.op = "useTokenIcon"
       /\ fn'.events \cap {"threw", "notOk", "unsupported"} # {}) =>
        /\ fn'.CACHE = fn.CACHE
        /\ \A c \in Consumers :
             fn'.consumers[c].mounted /\ fn.consumers[c].mounted =>
               fn'.consumers[c].uri = fn.consumers[c].uri
        /\ "uncaught" \notin fn'.events ]_vars


----------------------------------------------------------------------------
(* Properties of the fetches in flight *)

\* the store holds what the fetch of call writes
EntryFor(call, st) ==
  IF call.hook = "Updater"
  THEN version = 1 => Has(st.topPairs, call.network)
  ELSE ~NoEntryFor(call, st)

\* C34: a pair, chart, transaction, hourly or top-pairs fetch that was in
\* flight when the store was reset, or when its component was unmounted, and
\* that completes with a result, dispatches it: its entry is in the store
\* after the completion
C34_InFlightFetchStillApplies ==
  [][ \A c \in CompletedCalls :
        (/\ fn.op = "inFlight"
         /\ (fn.reset /\ started = fn.started) \/ c \in fn.unmounted
         /\ ev'.t \notin {"uncaught", "noResult"}) =>
           /\ ev'.t = "dispatch"
           /\ EntryFor(c, state') ]_vars

\* a chart fetch whose component was unmounted and that was in flight at the
\* RESET has written its series into the store that the RESET had cleared
C34_Witness ==
  /\ fn.op = "inFlight" /\ fn.reset /\ started = fn.started
  /\ ev.t = "dispatch" /\ ev.type = UPDATE_CHART_DATA /\ ~ev.failed
  /\ usePairChartDataCall(ev.payload.address) \in fn.unmounted
  /\ Len(ev.payload.chartData) > 0
  /\ state[ev.payload.address].chartData = ev.payload.chartData
  /\ calls = <<>>


----------------------------------------------------------------------------
(* Properties of the paged walk of getPairChartData *)

\* C35: the walk asks for the pages at skip 0, 1000, 2000, ... and ends at
\* the first page of less than 1000 points; it ends for every number of day
\* points, and what it collects is the pages it was answered one after the
\* other: every point of the pair once, in the order of the indexer
C35_PagedWalkCollectsEveryPointOnce ==
  /\ [](fn.op = "pairDayDatas" =>
          /\ \A k \in DOMAIN fn.skips : fn.skips[k] = 1000 * (k - 1)
          /\ fn.data = SubSeq(fn.points, 1, Len(fn.data))
          /\ fn.pc = "query" => Len(fn.data) = 1000 * Len(fn.skips)
          /\ (fn.pc = "found" /\ ~fn.caught) =>
               /\ fn.data = fn.points
               /\ Len(fn.skips) = (Len(fn.points) \div 1000) + 1)
  /\ <>(fn.op = "pairDayDatas" => fn.pc = "found")

\* a walk of three pages has ended: two full ones and a last one of a point
C35_Witness ==
  /\ fn.op = "pairDayDatas" /\ fn.pc = "found" /\ ~fn.caught
  /\ fn.skips = <<0, 1000, 2000>>
  /\ Len(fn.data) = 2001
  /\ fn.data[1000] = 1000 /\ fn.data[1001] = 1001 /\ fn.data[2001] = 2001


----------------------------------------------------------------------------
(* Properties of the fetch cycle of the hooks *)

\* C36: once a fetch of usePairData for an address has completed and its
\* result has been applied, the effect issues no other fetch for that
\* address: not in the step that follows the UPDATE
C36_NoFetchAfterApplied ==
  [][ (ev.t = "dispatch" /\ ev.type = UPDATE /\ started' = started + 1) =>
        ~(/\ calls'[Len(calls')].hook = "usePairData"
          /\ calls'[Len(calls')].address = ev.payload.pairAddress) ]_vars


\* C37: a top-pairs fetch that completes after the network was switched
\* writes its list under the network it was started for: what is read as the
\* top pairs of the network selected now, and of every other network than
\* its own, is what it was
C37_TopPairsWrittenUnderOwnNetwork ==
  [][ \A c \in CompletedCalls :
        (c.hook = "Updater" /\ ev'.t = "dispatch" /\ network # c.network) =>
          \A n \in Networks \ {c.network} :
             useAllPairData(state', n) = useAllPairData(state, n) ]_vars


\* C38: the result that useDataForList holds, once its reset effect has run,
\* was fetched for the list of ids it is rendered with
C38_ResultIsOfCurrentList ==
  (fn.op = "useDataForList" /\ ~fn.resetDue /\ fn.from.defined) =>
    fn.from.value = fn.pairList

=============================================================================
